---------------------------- MODULE Spec2Model ----------------------------
(***************************************************************************)
(* Verification model of the UmmahWay TV display.                          *)
(*                                                                         *)
(*  Part I   the offline cache worker (install / activate / fetch and the  *)
(*           three caching strategies), with every await of the worker as  *)
(*           a separate step and the un-awaited cache.put() as a write     *)
(*           that completes later.                                         *)
(*  Part II  the schedule utilities (timeToMinutes, computeNextPrayer,     *)
(*           getNextPrayer, countdown) of the three display variants.      *)
(***************************************************************************)
EXTENDS Integers, Sequences, FiniteSets, TLC

(***************************************************************************)
(* Bounds of the model.                                                    *)
(***************************************************************************)
\* fetch events that may be executing at once
MaxSlots == 1
\* fetch events dispatched in one run
MaxRequests == 3
\* loads (boot, reload, change notification) started in one run of a client
MaxLoads == 2
\* days in the daily part of a forecast payload
MaxDays == 1
\* re-runs of the slideshow effect after its first run
MaxResets == 2
\* midnights that pass while a display is running
MaxMidnights == 2
\* rows of masjid_jumuah_times of one masjid
MaxSlotRows == 5

(***************************************************************************)
(* Part I.  Offline cache worker                                           *)
(***************************************************************************)
VERSION == "v1"
APP_SHELL_CACHE == "ummahway-shell-" \o VERSION
API_CACHE == "ummahway-api-" \o VERSION

\* caches left behind by an earlier deployment of the worker
OLD_SHELL_CACHE == "ummahway-shell-v0"
OLD_API_CACHE == "ummahway-api-v0"
OldCacheNames == {OLD_SHELL_CACHE, OLD_API_CACHE}
CacheNames == {APP_SHELL_CACHE, API_CACHE} \cup OldCacheNames

\* A URL of the worker's origin: the pathname as its "/"-separated segments
\* ("/" is <<>>, "/api/weather" is <<"api", "weather">>) and the query string.
Url(path, search) == [path |-> path, search |-> search]
RootUrl == Url(<<>>, "")
ManifestUrl == Url(<<"manifest.webmanifest">>, "")
FaviconUrl == Url(<<"favicon.ico">>, "")
StaticUrl == Url(<<"_next", "static", "app.js">>, "")
ApiUrl == Url(<<"api", "weather">>, "")
OtherUrl == Url(<<"images", "logo.png">>, "")

APP_SHELL_ASSETS == <<RootUrl, ManifestUrl, FaviconUrl>>

\* URLs that fetch events ask for
RequestUrls == {RootUrl, StaticUrl, ApiUrl, OtherUrl}
Urls == RequestUrls \cup {ManifestUrl, FaviconUrl}

Modes == {"navigate", "cors"}
Statuses == {200, 500}

NoResp == [kind |-> "none"]
NetResp(url, status) == [kind |-> "net", url |-> url, status |-> status]
OldResp(url) == [kind |-> "old", url |-> url, status |-> 200]
OfflineResp == [kind |-> "synth", status |-> 503, body |-> [error |-> "Offline and no cache"]]

SeqToSet(s) == {s[i] : i \in 1..Len(s)}
Slots == 1..MaxSlots

VARIABLES
    swState,        \* lifecycle position of the worker
    skipWaitingCalled,
    claimed,
    cacheKeys,      \* names of the existing caches, in creation order
    cacheData,      \* cache name -> URL -> stored response
    toDelete,       \* activate: deletions of Promise.all still outstanding
    deleted,        \* activate: caches deleted by this activation
    pendingPuts,    \* cache.put() calls issued and not yet completed
    slots,          \* the fetch events being handled
    started,        \* number of fetch events dispatched
    nfLast          \* history: URL -> the last response networkFirst got from the network

swVars == <<swState, skipWaitingCalled, claimed, cacheKeys, cacheData,
            toDelete, deleted, pendingPuts, slots, started, nfLast>>

VARIABLES
    prayers,        \* the prayer rows loaded by the display
    clock,          \* the local clock of the masjid's timezone
    shown           \* what each display variant shows as next prayer and countdown

prVars == <<prayers, clock, shown>>

VARIABLES
    ui,             \* the client variant that is mounted
    mounted,        \* the component is mounted
    alive,          \* alive.current, the component's liveness flag
    effectRuns,     \* number of times the load effect has been set up
    loads,          \* the asynchronous loads, by order of start
    view,           \* display state: per field, the load it comes from
    lastResolved    \* history: per data set, the load whose response resolved last

ldVars == <<ui, mounted, alive, effectRuns, loads, view, lastResolved>>

VARIABLES
    wx,             \* the weather proxy's handler: its locals and its response
    hd              \* the hadith proxy's handler in two calls: locals and response

pxVars == <<wx, hd>>

VARIABLES
    ss,             \* the slideshow of a display: its state, timers and callbacks
    jm,             \* the Jumu'ah slots: the table, what is loaded and what is rendered
    dr              \* the display's date, the date of its prayer rows and its reloads

tvVars == <<ss, jm, dr>>
appVars == <<ldVars, pxVars, tvVars>>
vars == <<swVars, prVars, appVars>>

\* the loads of one run, numbered in the order in which they start
LoadIds == 1..MaxLoads

\* the fields of display state a load may commit
Fields == {"masjid", "prayers", "announcements", "jumuah", "weather", "hadith", "error"}

\* the data sets refreshed by change notifications
DataSets == {"prayers", "announcements", "jumuah"}

\* a field's useState initial value: it comes from no load
NotLoaded == [by |-> 0, ok |-> FALSE]

UnusedLoad == [pc |-> "unused", kind |-> "none", run |-> 0, pending |-> {},
               outcome |-> "none"]

\* no client is part of the run
LdIdle ==
    /\ ui = "none"
    /\ mounted = FALSE
    /\ alive = FALSE
    /\ effectRuns = 0
    /\ loads = [l \in LoadIds |-> UnusedLoad]
    /\ view = [f \in Fields |-> NotLoaded]
    /\ lastResolved = [d \in DataSets |-> 0]

\* no request is being handled by the weather proxy
WxIdle == wx = [pc |-> "idle"]

\* no request is being handled by the hadith proxy
HdIdle == hd = <<>>

\* no slideshow is running
SsIdle == ss = [pc |-> "idle"]

\* no Jumu'ah slots are being loaded
JmIdle == jm = [pc |-> "idle"]

\* no display is watching the date
DrIdle == dr = [pc |-> "idle"]

TvIdle == SsIdle /\ JmIdle /\ DrIdle
AppIdle == LdIdle /\ WxIdle /\ HdIdle /\ TvIdle

EmptyCache == [u \in Urls |-> NoResp]

\* caches.open(name): the cache is created when it does not exist
CachesOpen(keys, name) == IF name \in SeqToSet(keys) THEN keys ELSE Append(keys, name)

\* caches.match(url): the first cache, in creation order, holding the URL
RECURSIVE MatchFrom(_, _, _, _)
MatchFrom(keys, data, url, i) ==
    IF i > Len(keys) THEN NoResp
    ELSE IF data[keys[i]][url] # NoResp THEN data[keys[i]][url]
    ELSE MatchFrom(keys, data, url, i + 1)

CachesMatch(keys, data, url) == MatchFrom(keys, data, url, 1)


OldShellData == [u \in Urls |-> IF u \in {RootUrl, StaticUrl} THEN OldResp(u) ELSE NoResp]
OldApiData == [u \in Urls |-> IF u = ApiUrl THEN OldResp(u) ELSE NoResp]

\* the cache storage a new deployment may find: nothing (first visit), or the
\* two caches of version v0
InitialCacheKeys == {<<>>, <<OLD_SHELL_CACHE, OLD_API_CACHE>>}

IdleSlot == [pc |-> "idle", url |-> RootUrl, method |-> "GET", sameOrigin |-> TRUE,
             mode |-> "cors", strategy |-> "none", fresh |-> NoResp,
             result |-> NoResp, outcome |-> "none", nfetch |-> 0, hit |-> FALSE]

SWInit ==
    /\ swState = "parsed"
    /\ skipWaitingCalled = FALSE
    /\ claimed = FALSE
    /\ cacheKeys \in InitialCacheKeys
    /\ cacheData = [c \in CacheNames |->
                      IF c = OLD_SHELL_CACHE /\ c \in SeqToSet(cacheKeys) THEN OldShellData
                      ELSE IF c = OLD_API_CACHE /\ c \in SeqToSet(cacheKeys) THEN OldApiData
                      ELSE EmptyCache]
    /\ toDelete = {}
    /\ deleted = {}
    /\ pendingPuts = {}
    /\ slots = [h \in Slots |-> IdleSlot]
    /\ started = 0
    /\ nfLast = [u \in Urls |-> NoResp]

(*------------------------------ install --------------------------------*)
\* caches.open(APP_SHELL_CACHE)
InstallOpen ==
    /\ swState = "parsed"
    /\ cacheKeys' = CachesOpen(cacheKeys, APP_SHELL_CACHE)
    /\ swState' = "installing"
    /\ UNCHANGED <<prVars, appVars, nfLast, skipWaitingCalled, claimed, cacheData, toDelete, deleted,
                   pendingPuts, slots, started>>

\* the entries cache.addAll(APP_SHELL_ASSETS) writes when every asset is fetched
AddAllEntries(cache) ==
    [u \in Urls |-> IF u \in SeqToSet(APP_SHELL_ASSETS) THEN NetResp(u, 200) ELSE cache[u]]

\* the state the install promise chain reaches once addAll has resolved
AfterAddAll == "populated"

\* cache.addAll(APP_SHELL_ASSETS) resolves: all assets were fetched with an ok status
InstallAddAllOk ==
    /\ swState = "installing"
    /\ cacheData' = [cacheData EXCEPT ![APP_SHELL_CACHE] = AddAllEntries(@)]
    /\ swState' = AfterAddAll
    /\ UNCHANGED <<prVars, appVars, nfLast, skipWaitingCalled, claimed, cacheKeys, toDelete, deleted,
                   pendingPuts, slots, started>>

\* mutant: the rejection of addAll is swallowed and the chain goes on
AddAllFailureIgnored == "populated"

\* the state the install promise chain reaches once addAll has rejected
AfterAddAllFailure == "install_failed"

\* cache.addAll rejects (an asset failed to load): nothing is written and the
\* chain skips the .then(() => self.skipWaiting())
InstallAddAllFail ==
    /\ swState = "installing"
    /\ swState' = AfterAddAllFailure
    /\ UNCHANGED <<prVars, appVars, nfLast, skipWaitingCalled, claimed, cacheKeys, cacheData, toDelete,
                   deleted, pendingPuts, slots, started>>

\* .then(() => self.skipWaiting())
InstallSkipWaiting ==
    /\ swState = "populated"
    /\ skipWaitingCalled' = TRUE
    /\ swState' = "installed"
    /\ UNCHANGED <<prVars, appVars, nfLast, claimed, cacheKeys, cacheData, toDelete, deleted,
                   pendingPuts, slots, started>>

(*------------------------------ activate -------------------------------*)
\* mutant: only the API cache of the current version is kept
ActivateKeepsApiOnly(keys) == {k \in SeqToSet(keys) : k # API_CACHE}

\* keys.filter((key) => ![APP_SHELL_CACHE, API_CACHE].includes(key))
ActivateFilter(keys) == {k \in SeqToSet(keys) : k \notin {APP_SHELL_CACHE, API_CACHE}}

\* caches.keys().then(keys => Promise.all(keys.filter(..).map(caches.delete)))
ActivateKeys ==
    /\ swState = "installed"
    /\ toDelete' = ActivateFilter(cacheKeys)
    /\ swState' = "activating"
    /\ UNCHANGED <<prVars, appVars, nfLast, skipWaitingCalled, claimed, cacheKeys, cacheData, deleted,
                   pendingPuts, slots, started>>

\* caches.delete(key): the cache and its entries are gone
CachesDelete(keys, key) == SelectSeq(keys, LAMBDA k : k # key)

\* one of the deletions handed to Promise.all completes
ActivateDelete ==
    /\ swState = "activating"
    /\ \E k \in toDelete :
         /\ cacheKeys' = CachesDelete(cacheKeys, k)
         /\ cacheData' = [cacheData EXCEPT ![k] = EmptyCache]
         /\ toDelete' = toDelete \ {k}
         /\ deleted' = deleted \cup {k}
    /\ UNCHANGED <<prVars, appVars, nfLast, swState, skipWaitingCalled, claimed, pendingPuts, slots, started>>

\* mutant: clients.claim() does not wait for the deletions
DeletionsNotAwaited(pending) == TRUE

\* Promise.all has resolved when no deletion is outstanding
DeletionsDone(pending) == pending = {}

\* .then(() => self.clients.claim())
ActivateClaim ==
    /\ swState = "activating"
    /\ DeletionsDone(toDelete)
    /\ claimed' = TRUE
    /\ swState' = "activated"
    /\ UNCHANGED <<prVars, appVars, nfLast, skipWaitingCalled, cacheKeys, cacheData, toDelete, deleted,
                   pendingPuts, slots, started>>


(*-------------------------------- fetch --------------------------------*)
\* url.pathname.startsWith("/_next/static/")
IsNextStatic(url) ==
    /\ Len(url.path) >= 3
    /\ url.path[1] = "_next"
    /\ url.path[2] = "static"

\* APP_SHELL_ASSETS.includes(url.pathname): the query string is not part of pathname
IsShellAsset(url) == \E i \in 1..Len(APP_SHELL_ASSETS) : APP_SHELL_ASSETS[i].path = url.path

\* url.pathname.startsWith("/api/")
IsApiPath(url) ==
    /\ Len(url.path) >= 2
    /\ url.path[1] = "api"

\* mutant: the /api/ test precedes the navigation test
RouteApiBeforeNavigate(method, sameOrigin, mode, url) ==
    IF method # "GET" THEN "none"
    ELSE IF ~sameOrigin THEN "none"
    ELSE IF IsApiPath(url) THEN "networkFirst"
    ELSE IF mode = "navigate" THEN "networkWithShellFallback"
    ELSE IF IsNextStatic(url) \/ IsShellAsset(url) THEN "cacheFirst"
    ELSE "none"

\* the fetch listener: which strategy answers the request, "none" when
\* respondWith is not called
Route(method, sameOrigin, mode, url) ==
    IF method # "GET" THEN "none"
    ELSE IF ~sameOrigin THEN "none"
    ELSE IF mode = "navigate" THEN "networkWithShellFallback"
    ELSE IF IsNextStatic(url) \/ IsShellAsset(url) THEN "cacheFirst"
    ELSE IF IsApiPath(url) THEN "networkFirst"
    ELSE "none"

FirstPc(strategy) ==
    CASE strategy = "cacheFirst" -> "cf_match"
      [] strategy = "networkFirst" -> "nf_fetch"
      [] strategy = "networkWithShellFallback" -> "sf_fetch"
      [] OTHER -> "done"

Request(method, sameOrigin, mode, url) ==
    [method |-> method, sameOrigin |-> sameOrigin, mode |-> mode, url |-> url]

\* the fetch events the pages produce: the same-origin GETs of each route, and
\* samples of the requests the listener ignores (form posts, third-party resources)
Requests ==
    {Request("GET", TRUE, "navigate", RootUrl), Request("GET", TRUE, "navigate", ApiUrl),
     Request("GET", TRUE, "cors", RootUrl), Request("GET", TRUE, "cors", StaticUrl),
     Request("GET", TRUE, "cors", ApiUrl), Request("GET", TRUE, "cors", OtherUrl),
     Request("POST", TRUE, "cors", ApiUrl), Request("POST", TRUE, "navigate", RootUrl),
     Request("GET", FALSE, "cors", StaticUrl), Request("GET", FALSE, "cors", ApiUrl),
     Request("GET", FALSE, "navigate", RootUrl)}

\* the slot a new fetch event occupies
FreeSlot(h) == slots[h].pc = "idle" /\ \A g \in Slots : g < h => slots[g].pc # "idle"

\* a fetch event reaches the listener of the active worker
Dispatch(h) ==
    /\ swState = "activated"
    /\ started < MaxRequests
    /\ FreeSlot(h)
    /\ \E r \in Requests :
         LET st == Route(r.method, r.sameOrigin, r.mode, r.url) IN
         slots' = [slots EXCEPT ![h] =
                     [IdleSlot EXCEPT !.pc = FirstPc(st), !.url = r.url, !.method = r.method,
                                      !.sameOrigin = r.sameOrigin, !.mode = r.mode,
                                      !.strategy = st,
                                      !.outcome = IF st = "none" THEN "passthrough"
                                                  ELSE "pending"]]
    /\ started' = started + 1
    /\ UNCHANGED <<prVars, appVars, nfLast, swState, skipWaitingCalled, claimed, cacheKeys, cacheData,
                   toDelete, deleted, pendingPuts>>

\* the handler's promise settles with a response
Respond(slot, resp) ==
    [slot EXCEPT !.pc = "done", !.result = resp, !.outcome = "responded", !.fresh = NoResp]
\* the handler's promise rejects
Reject(slot) == [slot EXCEPT !.pc = "done", !.outcome = "rejected"]

\* cache.put(request, fresh.clone()), not awaited
PutRequest(cacheName, url, resp) == [cache |-> cacheName, url |-> url, resp |-> resp]

\* an issued cache.put completes: the entry replaces what the cache held
PutCommit ==
    /\ \E p \in pendingPuts :
         /\ cacheData' = IF p.cache \in SeqToSet(cacheKeys)
                         THEN [cacheData EXCEPT ![p.cache][p.url] = p.resp]
                         ELSE cacheData
         /\ pendingPuts' = pendingPuts \ {p}
    /\ UNCHANGED <<prVars, appVars, nfLast, swState, skipWaitingCalled, claimed, cacheKeys, toDelete,
                   deleted, slots, started>>

\* the page has consumed the answer; the slot is free again
Release(h) ==
    /\ slots[h].pc = "done"
    /\ slots' = [slots EXCEPT ![h] = IdleSlot]
    /\ UNCHANGED <<prVars, appVars, nfLast, swState, skipWaitingCalled, claimed, cacheKeys, cacheData,
                   toDelete, deleted, pendingPuts, started>>


\* fetch(request): each call is counted, whether it resolves or throws
Fetched(slot, status) ==
    [slot EXCEPT !.fresh = NetResp(slot.url, status), !.nfetch = @ + 1]
FetchThrew(slot) == [slot EXCEPT !.nfetch = @ + 1]

OtherSW == <<prVars, appVars, swState, skipWaitingCalled, claimed, toDelete, deleted, started>>

(*----------------------------- cacheFirst ------------------------------*)
\* mutant: the cache hit is re-validated against the network
CacheFirstRevalidates(slot, cached) == [slot EXCEPT !.pc = "cf_fetch"]

\* const cached = await caches.match(request); if (cached) return cached;
CacheFirstAfterMatch(slot, cached) ==
    IF cached # NoResp
    THEN [Respond(slot, cached) EXCEPT !.hit = TRUE]
    ELSE [slot EXCEPT !.pc = "cf_fetch"]

CfMatch(h) ==
    /\ slots[h].pc = "cf_match"
    /\ slots' = [slots EXCEPT ![h] =
                   CacheFirstAfterMatch(@, CachesMatch(cacheKeys, cacheData, @.url))]
    /\ UNCHANGED <<OtherSW, nfLast, cacheKeys, cacheData, pendingPuts>>

\* const fresh = await fetch(request): a throw rejects the handler
CfFetch(h) ==
    /\ slots[h].pc = "cf_fetch"
    /\ \/ slots' = [slots EXCEPT ![h] = Reject(FetchThrew(@))]
       \/ \E s \in Statuses :
            slots' = [slots EXCEPT ![h] = [Fetched(@, s) EXCEPT !.pc = "cf_open"]]
    /\ UNCHANGED <<OtherSW, nfLast, cacheKeys, cacheData, pendingPuts>>

\* const cache = await caches.open(APP_SHELL_CACHE);
\* cache.put(request, fresh.clone()); return fresh;
CfOpen(h) ==
    /\ slots[h].pc = "cf_open"
    /\ cacheKeys' = CachesOpen(cacheKeys, APP_SHELL_CACHE)
    /\ pendingPuts' = pendingPuts \cup
                        {PutRequest(APP_SHELL_CACHE, slots[h].url, slots[h].fresh)}
    /\ slots' = [slots EXCEPT ![h] = Respond(@, @.fresh)]
    /\ UNCHANGED <<OtherSW, nfLast, cacheData>>

(*----------------------------- networkFirst ----------------------------*)
\* try { const fresh = await fetch(request); ... } catch { ... }
NfFetch(h) ==
    /\ slots[h].pc = "nf_fetch"
    /\ \/ /\ slots' = [slots EXCEPT ![h] = [FetchThrew(@) EXCEPT !.pc = "nf_match"]]
          /\ UNCHANGED nfLast
       \/ \E s \in Statuses :
            /\ slots' = [slots EXCEPT ![h] = [Fetched(@, s) EXCEPT !.pc = "nf_open"]]
            /\ nfLast' = [nfLast EXCEPT ![slots[h].url] = NetResp(slots[h].url, s)]
    /\ UNCHANGED <<OtherSW, cacheKeys, cacheData, pendingPuts>>

\* the cache networkFirst writes to
NetworkFirstCache == API_CACHE

\* const cache = await caches.open(API_CACHE);
\* cache.put(request, fresh.clone()); return fresh;
NfOpen(h) ==
    /\ slots[h].pc = "nf_open"
    /\ cacheKeys' = CachesOpen(cacheKeys, NetworkFirstCache)
    /\ pendingPuts' = pendingPuts \cup
                        {PutRequest(NetworkFirstCache, slots[h].url, slots[h].fresh)}
    /\ slots' = [slots EXCEPT ![h] = Respond(@, @.fresh)]
    /\ UNCHANGED <<OtherSW, nfLast, cacheData>>

\* mutant: without a cached response the network error is rethrown
NetworkFirstRethrows(slot, cached) ==
    IF cached # NoResp
    THEN [Respond(slot, cached) EXCEPT !.hit = TRUE]
    ELSE Reject(slot)

\* const cached = await caches.match(request); if (cached) return cached;
\* return new Response(JSON.stringify({ error: "Offline and no cache" }), {status: 503})
NetworkFirstFallback(slot, cached) ==
    IF cached # NoResp
    THEN [Respond(slot, cached) EXCEPT !.hit = TRUE]
    ELSE Respond(slot, OfflineResp)

NfMatch(h) ==
    /\ slots[h].pc = "nf_match"
    /\ slots' = [slots EXCEPT ![h] =
                   NetworkFirstFallback(@, CachesMatch(cacheKeys, cacheData, @.url))]
    /\ UNCHANGED <<OtherSW, nfLast, cacheKeys, cacheData, pendingPuts>>

(*----------------------- networkWithShellFallback ----------------------*)
SfFetch(h) ==
    /\ slots[h].pc = "sf_fetch"
    /\ \/ slots' = [slots EXCEPT ![h] = [FetchThrew(@) EXCEPT !.pc = "sf_match"]]
       \/ \E s \in Statuses :
            slots' = [slots EXCEPT ![h] = [Fetched(@, s) EXCEPT !.pc = "sf_open"]]
    /\ UNCHANGED <<OtherSW, nfLast, cacheKeys, cacheData, pendingPuts>>

\* const cache = await caches.open(APP_SHELL_CACHE);
\* cache.put(request, fresh.clone()); return fresh;
SfOpen(h) ==
    /\ slots[h].pc = "sf_open"
    /\ cacheKeys' = CachesOpen(cacheKeys, APP_SHELL_CACHE)
    /\ pendingPuts' = pendingPuts \cup
                        {PutRequest(APP_SHELL_CACHE, slots[h].url, slots[h].fresh)}
    /\ slots' = [slots EXCEPT ![h] = Respond(@, @.fresh)]
    /\ UNCHANGED <<OtherSW, nfLast, cacheData>>

\* mutant: the cached response of the request is not consulted
ShellFallbackSkipsRequest(slot, cached) == [slot EXCEPT !.pc = "sf_shell"]

\* const cached = await caches.match(request); if (cached) return cached;
ShellFallbackAfterMatch(slot, cached) ==
    IF cached # NoResp
    THEN [Respond(slot, cached) EXCEPT !.hit = TRUE]
    ELSE [slot EXCEPT !.pc = "sf_shell"]

SfMatch(h) ==
    /\ slots[h].pc = "sf_match"
    /\ slots' = [slots EXCEPT ![h] =
                   ShellFallbackAfterMatch(@, CachesMatch(cacheKeys, cacheData, @.url))]
    /\ UNCHANGED <<OtherSW, nfLast, cacheKeys, cacheData, pendingPuts>>

\* const shell = await caches.match("/"); if (shell) return shell;
\* throw new Error("Offline without cached shell");
ShellFallbackAfterShell(slot, shell) ==
    IF shell # NoResp THEN Respond(slot, shell) ELSE Reject(slot)

SfShell(h) ==
    /\ slots[h].pc = "sf_shell"
    /\ slots' = [slots EXCEPT ![h] =
                   ShellFallbackAfterShell(@, CachesMatch(cacheKeys, cacheData, RootUrl))]
    /\ UNCHANGED <<OtherSW, nfLast, cacheKeys, cacheData, pendingPuts>>


(*----------------------- the worker's specification --------------------*)
\* the display is not part of the worker's runs
PrIdle ==
    /\ prayers = <<>>
    /\ clock = [date |-> "", minutes |-> 0, d |-> 0, i |-> 0]
    /\ shown = <<>>

Init == SWInit /\ PrIdle /\ AppIdle

Next ==
    \/ InstallOpen
    \/ InstallAddAllOk
    \/ InstallAddAllFail
    \/ InstallSkipWaiting
    \/ ActivateKeys
    \/ ActivateDelete
    \/ ActivateClaim
    \/ \E h \in Slots : Dispatch(h)
    \/ \E h \in Slots : CfMatch(h)
    \/ \E h \in Slots : CfFetch(h)
    \/ \E h \in Slots : CfOpen(h)
    \/ \E h \in Slots : NfFetch(h)
    \/ \E h \in Slots : NfOpen(h)
    \/ \E h \in Slots : NfMatch(h)
    \/ \E h \in Slots : SfFetch(h)
    \/ \E h \in Slots : SfOpen(h)
    \/ \E h \in Slots : SfMatch(h)
    \/ \E h \in Slots : SfShell(h)
    \/ PutCommit
    \/ \E h \in Slots : Release(h)

Spec == Init /\ [][Next]_vars

\* The origin's Cache Storage is cleared from outside the worker (the user or
\* the browser clears the site's cached data) while the worker stays active,
\* here before the first fetch event: the pre-populated shell is gone.
Evict ==
    /\ swState = "activated"
    /\ started = 0
    /\ cacheKeys # <<>>
    /\ cacheKeys' = <<>>
    /\ cacheData' = [c \in CacheNames |-> EmptyCache]
    /\ UNCHANGED <<prVars, appVars, nfLast, swState, skipWaitingCalled, claimed, toDelete,
                   deleted, pendingPuts, slots, started>>

NextEvict == Next \/ Evict
SpecEvict == Init /\ [][NextEvict]_vars


(***************************************************************************)
(* Part II.  Schedule utilities of the display variants                    *)
(*                                                                         *)
(* A JavaScript value that is a number, NaN, null or undefined is a record *)
(* [kind, v]; a string is [null |-> FALSE, chars |-> its characters] and   *)
(* the null string is NullStr; an optional object is a sequence of zero or *)
(* one element.                                                            *)
(***************************************************************************)
Num(n) == [kind |-> "number", v |-> n]
NaN == [kind |-> "NaN", v |-> 0]
Null == [kind |-> "null", v |-> 0]
Undefined == [kind |-> "undefined", v |-> 0]

Str(chars) == [null |-> FALSE, chars |-> chars]
NullStr == [null |-> TRUE, chars |-> <<>>]

PRAYER_ORDER == <<"fajr", "dhuhr", "asr", "maghrib", "isha">>

Digits == {"0", "1", "2", "3", "4", "5", "6", "7", "8", "9"}
DigitVal(c) ==
    CASE c = "0" -> 0 [] c = "1" -> 1 [] c = "2" -> 2 [] c = "3" -> 3 [] c = "4" -> 4
      [] c = "5" -> 5 [] c = "6" -> 6 [] c = "7" -> 7 [] c = "8" -> 8 [] c = "9" -> 9

RECURSIVE DecimalValue(_)
DecimalValue(s) ==
    IF s = <<>> THEN 0
    ELSE 10 * DecimalValue(SubSeq(s, 1, Len(s) - 1)) + DigitVal(s[Len(s)])

\* Number(s) for a string of characters: "" is 0, digits are their decimal
\* value, anything else is NaN
Number(s) == IF \A i \in 1..Len(s) : s[i] \in Digits THEN Num(DecimalValue(s)) ELSE NaN

\* Number.isFinite(x)
IsFinite(x) == x.kind = "number"

\* a * 60 + b in JavaScript arithmetic (undefined converts to NaN)
TimesSixtyPlus(a, b) == IF IsFinite(a) /\ IsFinite(b) THEN Num(a.v * 60 + b.v) ELSE NaN

\* a >= b for a number a that may be NaN and an integer b
JsGeq(a, b) == IsFinite(a) /\ a.v >= b

\* chars.slice(0, n)
Slice(chars, n) == SubSeq(chars, 1, IF Len(chars) < n THEN Len(chars) ELSE n)

\* chars.split(":")
RECURSIVE SplitColon(_, _)
SplitColon(s, field) ==
    IF s = <<>> THEN <<field>>
    ELSE IF Head(s) = ":" THEN <<field>> \o SplitColon(Tail(s), <<>>)
    ELSE SplitColon(Tail(s), Append(field, Head(s)))

\* const [hh, mm] = t.slice(0, 5).split(":").map(Number)
HourMinute(t) ==
    LET f == SplitColon(Slice(t.chars, 5), <<>>) IN
    [hh |-> Number(f[1]),
     mm |-> IF Len(f) >= 2 THEN Number(f[2]) ELSE Undefined]

\* timeToMinutes (dashboard) and timeToMins (Aurora)
timeToMinutes(t) ==
    IF t.null \/ t.chars = <<>> THEN Null
    ELSE LET hm == HourMinute(t) IN
         IF ~IsFinite(hm.hh) \/ ~IsFinite(hm.mm) THEN Null
         ELSE TimesSixtyPlus(hm.hh, hm.mm)

\* prayers.filter((p) => p.date === today)
TodayRows(rows, today) == SelectSeq(rows, LAMBDA p : p.date = today)

\* rows.find((r) => r.prayer === key): <<>> when there is none
RECURSIVE FindFrom(_, _, _)
FindFrom(rows, key, i) ==
    IF i > Len(rows) THEN <<>>
    ELSE IF rows[i].prayer = key THEN <<rows[i]>>
    ELSE FindFrom(rows, key, i + 1)
Find(rows, key) == FindFrom(rows, key, 1)

\* mutant: the scan compares the start time
ScanStartTime(row) == row.start_time

\* the time of a row that the scan compares with the clock
ScanTime(row) == row.jamaat_time

\* a next-prayer result: <<>> is null
NextOf(key, mins) == <<[prayer |-> key, mins |-> mins]>>

\* computeNextPrayer of the dashboard: the loop over PRAYER_ORDER from index i
RECURSIVE DashScan(_, _, _)
DashScan(todayRows, minutesNow, i) ==
    IF i > Len(PRAYER_ORDER) THEN <<>>
    ELSE LET row == Find(todayRows, PRAYER_ORDER[i]) IN
         IF row = <<>> THEN DashScan(todayRows, minutesNow, i + 1)
         ELSE LET mins == timeToMinutes(ScanTime(row[1])) IN
              IF mins = Null THEN DashScan(todayRows, minutesNow, i + 1)
              ELSE IF JsGeq(mins, minutesNow) THEN NextOf(PRAYER_ORDER[i], mins)
              ELSE DashScan(todayRows, minutesNow, i + 1)

\* the fallback of computeNextPrayer once the scan found nothing
DashFallback(todayRows) ==
    LET first == Find(todayRows, "fajr") IN
    IF first = <<>> THEN <<>>
    ELSE LET mins == timeToMinutes(first[1].jamaat_time) IN
         IF mins # Null THEN NextOf("fajr", mins) ELSE <<>>

computeNextPrayer(rows, now) ==
    LET todayRows == TodayRows(rows, now.date)
        found == DashScan(todayRows, now.minutes, 1)
    IN IF found # <<>> THEN found ELSE DashFallback(todayRows)

\* getNextPrayer of Aurora: the scan only, there is no fallback
RECURSIVE AuroraScan(_, _, _)
AuroraScan(todayRows, nowM, i) ==
    IF i > Len(PRAYER_ORDER) THEN <<>>
    ELSE LET row == Find(todayRows, PRAYER_ORDER[i]) IN
         IF row = <<>> THEN AuroraScan(todayRows, nowM, i + 1)
         ELSE LET mins == timeToMinutes(row[1].jamaat_time) IN
              IF mins # Null /\ JsGeq(mins, nowM)
              THEN <<[prayer |-> PRAYER_ORDER[i], mins |-> mins, diff |-> mins.v - nowM]>>
              ELSE AuroraScan(todayRows, nowM, i + 1)

getNextPrayer(rows, now) == AuroraScan(TodayRows(rows, now.date), now.minutes, 1)

\* computeNextPrayer of the earlier dashboard: the time is parsed in place,
\* without timeToMinutes
RECURSIVE LegacyScan(_, _, _)
LegacyScan(todayRows, minutesNow, i) ==
    IF i > Len(PRAYER_ORDER) THEN <<>>
    ELSE LET row == Find(todayRows, PRAYER_ORDER[i]) IN
         IF row = <<>> THEN LegacyScan(todayRows, minutesNow, i + 1)
         ELSE LET hm == HourMinute(row[1].jamaat_time)
                  mins == TimesSixtyPlus(hm.hh, hm.mm)
              IN IF JsGeq(mins, minutesNow) THEN NextOf(PRAYER_ORDER[i], mins)
                 ELSE LegacyScan(todayRows, minutesNow, i + 1)

LegacyFallback(todayRows) ==
    LET first == Find(todayRows, "fajr") IN
    IF first = <<>> THEN <<>>
    ELSE LET hm == HourMinute(first[1].jamaat_time) IN
         NextOf("fajr", TimesSixtyPlus(hm.hh, hm.mm))

legacyComputeNextPrayer(rows, now) ==
    LET todayRows == TodayRows(rows, now.date)
        found == LegacyScan(todayRows, now.minutes, 1)
    IN IF found # <<>> THEN found ELSE LegacyFallback(todayRows)


MinutesPerDay == 1440

\* mutant: a negative difference is not wrapped to the next day
countdownNoWrap(next, now) ==
    IF next = <<>> THEN "-"
    ELSE LET mins == next[1].mins IN
         IF ~IsFinite(mins) THEN "NaNh NaNm"
         ELSE LET diff == mins.v - now.minutes
                  h == diff \div 60
                  m == diff % 60
              IN IF h <= 0 THEN ToString(m) \o " min"
                 ELSE ToString(h) \o "h " \o ToString(m) \o "m"

\* the countdown memo of the dashboard and of the earlier dashboard
countdown(next, now) ==
    IF next = <<>> THEN "-"
    ELSE LET mins == next[1].mins IN
         IF ~IsFinite(mins) THEN "NaNh NaNm"
         ELSE LET raw == mins.v - now.minutes
                  diff == IF raw < 0 THEN raw + MinutesPerDay ELSE raw
                  h == diff \div 60
                  m == diff % 60
              IN IF h <= 0 THEN ToString(m) \o " min"
                 ELSE ToString(h) \o "h " \o ToString(m) \o "m"

\* formatCountdown of Aurora, applied to next.diff where a next prayer is shown
formatCountdown(mins) ==
    IF mins < 60 THEN ToString(mins) \o " min"
    ELSE LET h == mins \div 60
             m == mins % 60
         IN IF m = 0 THEN ToString(h) \o "h"
            ELSE ToString(h) \o "h " \o ToString(m) \o "m"

auroraCountdown(next) == IF next = <<>> THEN "" ELSE formatCountdown(next[1].diff)

(*------------------------- the display's inputs ------------------------*)
Chars(h1, h2, m1, m2) == Str(<<h1, h2, ":", m1, m2, ":", "0", "0">>)

Row(prayer, date, start, jamaat) ==
    [prayer |-> prayer, date |-> date, start_time |-> start, jamaat_time |-> jamaat]

\* the rows a masjid may have for one prayer on one date
RowChoices(prayer, date) ==
    CASE prayer = "fajr" ->
           {Row("fajr", date, Chars("0", "5", "0", "0"), Chars("0", "5", "2", "0"))}
      [] prayer = "dhuhr" ->
           {Row("dhuhr", date, Chars("1", "3", "0", "0"), Chars("1", "3", "1", "5"))}
      [] prayer = "asr" ->
           {Row("asr", date, Chars("1", "6", "0", "0"), Chars("1", "6", "2", "0")),
            Row("asr", date, Chars("1", "1", "4", "5"), Chars("1", "2", "0", "0"))}
      [] prayer = "maghrib" ->
           {Row("maghrib", date, Chars("1", "9", "0", "0"), Chars("1", "9", "0", "5"))}
      [] prayer = "isha" ->
           {Row("isha", date, Chars("2", "0", "3", "0"), Chars("2", "0", "4", "5"))}

Dates == <<"2026-01-01", "2026-01-02">>

\* the prayers whose row may be missing from a date's schedule
Optional == {"fajr", "dhuhr", "asr", "isha"}

\* the result of the prayer query for one date: at most one row per prayer
RECURSIVE RowLists(_, _)
RowLists(date, i) ==
    IF i > Len(PRAYER_ORDER) THEN {<<>>}
    ELSE LET rest == RowLists(date, i + 1) IN
         (IF PRAYER_ORDER[i] \in Optional THEN rest ELSE {})
         \cup {<<r>> \o l : r \in RowChoices(PRAYER_ORDER[i], date), l \in rest}

\* a load asks for the rows of the date the clock showed when it started
LoadableRows(now) == UNION {RowLists(Dates[d], 1) : d \in 1..now.d}

\* the minutes of the day at which the display is observed
ClockSamples == <<300, 320, 321, 840, 980, 981, 1260>>

ClockAt(d, i) == [date |-> Dates[d], minutes |-> ClockSamples[i], d |-> d, i |-> i]

(*------------------------- the display's renders -----------------------*)
Variants == {"dashboard", "aurora", "legacy"}

\* what a variant's next-prayer function returns
NextPrayer(variant, rows, now) ==
    CASE variant = "dashboard" -> computeNextPrayer(rows, now)
      [] variant = "aurora" -> getNextPrayer(rows, now)
      [] variant = "legacy" -> legacyComputeNextPrayer(rows, now)

Countdown(variant, next, now) ==
    IF variant = "aurora" THEN auroraCountdown(next) ELSE countdown(next, now)

\* a render in which the next-prayer memo is recomputed
Recomputed(variant, rows, now) ==
    LET next == NextPrayer(variant, rows, now) IN
    [next |-> next, at |-> now, countdown |-> Countdown(variant, next, now)]

\* a render after a clock tick: the memo of next has the dependencies
\* [prayers, tz] in the dashboards and [prayers, tz, clock] in Aurora
AfterTick(variant, prev, rows, now) ==
    IF variant = "aurora" THEN Recomputed(variant, rows, now)
    ELSE [prev EXCEPT !.countdown = countdown(prev.next, now)]

PrInit ==
    /\ prayers = <<>>
    /\ \E i \in 1..Len(ClockSamples) : clock = ClockAt(1, i)
    /\ shown = [v \in Variants |-> Recomputed(v, <<>>, clock)]

\* setPrayers(rows): the rows of a finished load are committed and rendered
SetPrayers ==
    /\ \E rows \in LoadableRows(clock) :
         /\ prayers' = rows
         /\ shown' = [v \in Variants |-> Recomputed(v, rows, clock)]
    /\ UNCHANGED <<clock, swVars, appVars>>

\* the next sample of the clock, on the following date after the last one
Later(c) ==
    IF c.i < Len(ClockSamples) THEN {ClockAt(c.d, c.i + 1)}
    ELSE IF c.d < Len(Dates) THEN {ClockAt(c.d + 1, 1)}
    ELSE {}

\* setClock(nowInTimeZone(tz)) of the clock timer, and the render it causes
Tick ==
    /\ \E c \in Later(clock) :
         /\ clock' = c
         /\ shown' = [v \in Variants |-> AfterTick(v, shown[v], prayers, c)]
    /\ UNCHANGED <<prayers, swVars, appVars>>

\* the worker is not part of the display's runs
SWIdle ==
    /\ SWInit
    /\ cacheKeys = <<>>

InitDisplay == PrInit /\ SWIdle /\ AppIdle
NextDisplay == SetPrayers \/ Tick
SpecDisplay == InitDisplay /\ [][NextDisplay]_vars

(*--------------- rows whose time strings are not "HH:MM:SS" --------------*)
\* jamaat_time values with one field ("0520") and with non-numeric fields
\* ("ab:cd")
MalformedTimes ==
    {Str(<<"0", "5", "2", "0">>),
     Str(<<"a", "b", ":", "c", "d">>)}

\* the fajr rows the table may hold when its strings are not validated
FajrChoices(date) ==
    RowChoices("fajr", date)
    \cup {Row("fajr", date, Chars("0", "5", "0", "0"), t) : t \in MalformedTimes}

\* the result of the prayer query for the clock's date
UnvalidatedRows(now) ==
    RowLists(now.date, 2)
    \cup {<<r>> \o l : r \in FajrChoices(now.date), l \in RowLists(now.date, 2)}

\* setPrayers(rows) with rows as the table holds them
SetPrayersUnvalidated ==
    /\ \E rows \in UnvalidatedRows(clock) :
         /\ prayers' = rows
         /\ shown' = [v \in Variants |-> Recomputed(v, rows, clock)]
    /\ UNCHANGED <<clock, swVars, appVars>>

NextRows == SetPrayersUnvalidated \/ Tick
SpecRows == InitDisplay /\ [][NextRows]_vars


(***************************************************************************)
(* Part III.  Loading of display state by the client variants              *)
(*                                                                         *)
(* A load is one call of loadAll / loadData or of a notification handler:  *)
(* it awaits its queries one after the other and commits each result with  *)
(* a setter.  The continuation of an await runs when its response          *)
(* resolves, so a step of a load is "the response resolves and the code up *)
(* to the next await runs".  React runs the cleanup and the setup of a     *)
(* re-triggered effect back to back, and discards the updates of an        *)
(* unmounted component.                                                    *)
(***************************************************************************)
\* the dashboard (TVClient), Aurora, and the home display (TvHome)
Clients == {"dashboard", "aurora", "home"}

\* a query resolves with data, or with an error and no data
Outcomes == {"ok", "error"}

\* the outcomes drawn for a query: failures are drawn for the masjid and the
\* prayers query and for the two fetches
OutcomesOf(stage) == IF stage \in {"announcements", "jumuah"} THEN {"ok"} ELSE Outcomes

\* the fetch of a load that is observed next: the two fetches write different
\* fields, so one order of their resolutions is followed
NextPanel(pending) == {p \in pending : p = "weather" \/ pending = {p}}

\* the queries a load of the given kind awaits, in order; in the home display
\* the first load is the masjid lookup followed by the loadAll that its
\* setMasjid triggers
Stages(kind) ==
    CASE kind \in {"boot", "realtime"} -> <<"masjid", "prayers", "announcements", "jumuah">>
      [] kind = "resolve" -> <<"masjid", "prayers", "announcements">>
      [] kind = "rtPrayers" -> <<"prayers">>
      [] kind = "rtAnnouncements" -> <<"announcements">>

\* where a load goes after a stage: its next query, the weather and hadith
\* fetches that loadAll / loadData fire at their end, or its end
StageAfter(kind, stage) ==
    LET st == Stages(kind)
        i == CHOOSE k \in 1..Len(st) : st[k] = stage
    IN IF i < Len(st) THEN st[i + 1]
       ELSE IF kind \in {"boot", "realtime"} THEN "panels"
       ELSE "done"

Started(kind, run) ==
    [pc |-> Stages(kind)[1], kind |-> kind, run |-> run, pending |-> {},
     outcome |-> "running"]

Advance(load) ==
    LET nxt == StageAfter(load.kind, load.pc) IN
    [load EXCEPT !.pc = nxt,
                 !.pending = IF nxt = "panels" THEN {"weather", "hadith"} ELSE {},
                 !.outcome = IF nxt = "done" THEN "finished" ELSE "running"]

Finish(load, outcome) == [load EXCEPT !.pc = "done", !.pending = {}, !.outcome = outcome]

\* the identifier the next load gets
FreeLoad(ls) == {l \in LoadIds : ls[l].pc = "unused" /\ \A k \in 1..(l - 1) : ls[k].pc # "unused"}

StartLoad(ls, kind, run) == [l \in LoadIds |-> IF l \in FreeLoad(ls) THEN Started(kind, run) ELSE ls[l]]

\* the commits that the code places behind a check of the liveness flag
Guards(client, field) ==
    CASE client = "dashboard" -> field # "error"
      [] client = "aurora" -> field # "error"
      [] client = "home" -> field = "masjid"

\* mutant: a load also commits only while no later load has started
CommitsOnlyNewest(l, field) ==
    /\ Guards(ui, field) => alive
    /\ \A k \in LoadIds : k > l => loads[k].pc = "unused"

\* load l reaches the setter of the field
MayCommit(l, field) == Guards(ui, field) => alive

\* whether a failed liveness check ends the load (return) or only skips the setter
ReturnsWhenDead(client, stage) == client = "dashboard" \/ stage = "masjid"

\* whether a load that cannot resolve its masjid sets the error state
SetsError(client, kind) ==
    CASE client = "dashboard" -> kind = "boot"
      [] client = "aurora" -> TRUE
      [] client = "home" -> kind = "resolve"

\* a setter call
Commit(v, field, value) == IF mounted THEN [v EXCEPT ![field] = value] ELSE v

\* the masjid query of load l resolves
ResolveMasjid(l) ==
    /\ loads[l].pc = "masjid"
    /\ \E o \in Outcomes :
         IF o = "error"
         THEN /\ view' = IF SetsError(ui, loads[l].kind)
                         THEN Commit(view, "error", [by |-> l, ok |-> FALSE])
                         ELSE view
              /\ loads' = [loads EXCEPT ![l] = Finish(@, "failed")]
         ELSE IF ~MayCommit(l, "masjid")
         THEN /\ view' = view
              /\ loads' = [loads EXCEPT ![l] = Finish(@, "aborted")]
         ELSE /\ view' = Commit(view, "masjid", [by |-> l, ok |-> TRUE])
              /\ loads' = [loads EXCEPT ![l] = Advance(@)]
    /\ UNCHANGED <<ui, mounted, alive, effectRuns, lastResolved, pxVars, tvVars, swVars, prVars>>

\* the prayers, announcements or Jumu'ah query of load l resolves
ResolveData(l) ==
    /\ loads[l].pc \in DataSets
    /\ \E o \in OutcomesOf(loads[l].pc) :
         LET d == loads[l].pc IN
         /\ lastResolved' = IF mounted THEN [lastResolved EXCEPT ![d] = l] ELSE lastResolved
         /\ IF MayCommit(l, d)
            THEN /\ view' = Commit(view, d, [by |-> l, ok |-> (o = "ok")])
                 /\ loads' = [loads EXCEPT ![l] = Advance(@)]
            ELSE /\ view' = view
                 /\ loads' = [loads EXCEPT ![l] = IF ReturnsWhenDead(ui, d)
                                                   THEN Finish(@, "aborted")
                                                   ELSE Advance(@)]
    /\ UNCHANGED <<ui, mounted, alive, effectRuns, pxVars, tvVars, swVars, prVars>>

\* the weather or the hadith fetch of load l resolves
ResolvePanel(l) ==
    /\ loads[l].pc = "panels"
    /\ \E p \in NextPanel(loads[l].pending), o \in Outcomes :
         /\ view' = IF o = "ok" /\ MayCommit(l, p)
                    THEN Commit(view, p, [by |-> l, ok |-> TRUE])
                    ELSE view
         /\ loads' = [loads EXCEPT ![l] = IF @.pending = {p}
                                           THEN Finish(@, "finished")
                                           ELSE [@ EXCEPT !.pending = @ \ {p}]]
    /\ UNCHANGED <<ui, mounted, alive, effectRuns, lastResolved, pxVars, tvVars, swVars, prVars>>

\* a change notification arrives on the realtime channel
Notify ==
    /\ mounted
    /\ FreeLoad(loads) # {}
    /\ \/ /\ ui = "dashboard"
          /\ loads' = StartLoad(loads, "realtime", effectRuns)
       \/ /\ ui = "home"
          /\ view["masjid"] # NotLoaded
          /\ \E kind \in {"rtPrayers", "rtAnnouncements"} :
               loads' = StartLoad(loads, kind, effectRuns)
    /\ UNCHANGED <<ui, mounted, alive, effectRuns, view, lastResolved, pxVars, tvVars, swVars, prVars>>

\* masjidId or todayKey changes: the effect is torn down and set up again
Retrigger ==
    /\ mounted
    /\ ui \in {"dashboard", "aurora"}
    /\ FreeLoad(loads) # {}
    /\ effectRuns' = effectRuns + 1
    /\ alive' = TRUE
    /\ view' = IF ui = "dashboard" THEN [view EXCEPT !["error"] = NotLoaded] ELSE view
    /\ loads' = StartLoad(loads, "boot", effectRuns + 1)
    /\ UNCHANGED <<ui, mounted, lastResolved, pxVars, tvVars, swVars, prVars>>

\* the component unmounts: the cleanup clears the liveness flag
Unmount ==
    /\ mounted
    /\ mounted' = FALSE
    /\ alive' = FALSE
    /\ UNCHANGED <<ui, effectRuns, loads, view, lastResolved, pxVars, tvVars, swVars, prVars>>

\* a client mounts and its first effect starts the first load
LdInit ==
    /\ ui \in Clients
    /\ mounted = TRUE
    /\ alive = TRUE
    /\ effectRuns = 1
    /\ loads = [l \in LoadIds |->
                  IF l = 1 THEN Started(IF ui = "home" THEN "resolve" ELSE "boot", 1)
                  ELSE UnusedLoad]
    /\ view = [f \in Fields |-> NotLoaded]
    /\ lastResolved = [d \in DataSets |-> 0]

InitLoad == LdInit /\ WxIdle /\ HdIdle /\ TvIdle /\ SWIdle /\ PrIdle
NextLoad ==
    \/ \E l \in LoadIds : ResolveMasjid(l)
    \/ \E l \in LoadIds : ResolveData(l)
    \/ \E l \in LoadIds : ResolvePanel(l)
    \/ Notify
    \/ Retrigger
    \/ Unmount
SpecLoad == InitLoad /\ [][NextLoad]_vars


(***************************************************************************)
(* Part IV.  Weather proxy (GET /api/weather)                              *)
(*                                                                         *)
(* JSON values are the records of Part II, with Infinity (a JSON number    *)
(* too large for a double) and Text (any string) added.  An exception that *)
(* leaves the handler is answered 500 by the framework.                    *)
(***************************************************************************)
Infinity == [kind |-> "Infinity", v |-> 0]
Text == [kind |-> "string", v |-> 0]

\* mutant: every value is forwarded as it is
numForwards(v) == v

\* num(v): typeof v === "number" && Number.isFinite(v) ? v : null
num(v) == IF v.kind = "number" THEN v ELSE Null

\* !s for a query parameter
Falsy(s) == s.null \/ s.chars = <<>>

\* the value JSON.stringify writes for a property
JsonValue(x) == IF x.kind \in {"NaN", "Infinity"} THEN Null ELSE x

\* NextResponse.json(body, { status })
JsonResponse(status, body) == [status |-> status, body |-> body]

ErrorBody(message) == [error |-> message]

\* the response to a request whose handler threw
Unhandled == [status |-> 500, body |-> ErrorBody("Internal Server Error")]

\* the query strings of the requests
Cities == {"", "Bolzano"}
Coordinates == {NullStr, Str(<<>>), Str(<<"4", "6">>), Str(<<"a", "b", "c">>)}

\* how an upstream call ends: fetch rejects, the status is not ok, the body
\* is not JSON, or the body parses
UpstreamEnds == {"threw", "not_ok", "unparsable", "json"}

\* results[0] of the geocoding payload: <<>> when there is no result
GeoFirsts ==
    {<<>>} \cup {<<[latitude |-> la, longitude |-> lo]>> :
                   la \in {Num(46), Text}, lo \in {Num(11), Undefined}}

\* one day of the forecast payload: the i-th elements of daily.*
ForecastDays ==
    [tmax : {Num(30), Text, Infinity, Undefined}, tmin : {Num(20), Null},
     precipProbMax : {Num(10), Text}, weathercode : {Num(3), Undefined}]

RECURSIVE DailyOfLength(_)
DailyOfLength(n) ==
    IF n = 0 THEN {<<>>}
    ELSE {Append(d, day) : d \in DailyOfLength(n - 1), day \in ForecastDays}

\* the forecast payloads: current_weather and daily; timeIsArray is FALSE
\* for a payload whose daily.time is a string
Forecasts ==
    [temperature : {Num(25), Text, Infinity, Undefined}, weathercode : {Num(1), Null},
     timeIsArray : {TRUE}, daily : UNION {DailyOfLength(n) : n \in 0..MaxDays}]
    \cup {[temperature |-> Num(25), weathercode |-> Num(1), timeIsArray |-> FALSE,
           daily |-> <<>>]}

\* the out object of the handler, as JSON.stringify writes it
WeatherOut(latitude, longitude, f) ==
    [location |-> [latitude |-> JsonValue(latitude), longitude |-> JsonValue(longitude)],
     current |-> [temperature |-> JsonValue(num(f.temperature)),
                  weathercode |-> JsonValue(num(f.weathercode))],
     daily |-> [i \in 1..Len(f.daily) |->
                  [tmax |-> JsonValue(num(f.daily[i].tmax)),
                   tmin |-> JsonValue(num(f.daily[i].tmin)),
                   precipProbMax |-> JsonValue(num(f.daily[i].precipProbMax)),
                   weathercode |-> JsonValue(num(f.daily[i].weathercode))]]]

WxDone(response) == [wx EXCEPT !.pc = "done", !.response = response]

\* a request arrives
WxInit ==
    \E city \in Cities, latQ \in Coordinates, lonQ \in Coordinates :
        wx = [pc |-> "start", city |-> city, latQ |-> latQ, lonQ |-> lonQ,
              latitude |-> Null, longitude |-> Null, geocoded |-> FALSE,
              forecast |-> <<>>, response |-> <<>>]

\* the handler up to its first await
WxStart ==
    /\ wx.pc = "start"
    /\ IF wx.city = "" /\ (Falsy(wx.latQ) \/ Falsy(wx.lonQ))
       THEN wx' = WxDone(JsonResponse(400, ErrorBody("Missing city (or lat/lon)")))
       ELSE LET latitude == IF Falsy(wx.latQ) THEN Null ELSE Number(wx.latQ.chars)
                longitude == IF Falsy(wx.lonQ) THEN Null ELSE Number(wx.lonQ.chars)
            IN wx' = [wx EXCEPT !.latitude = latitude, !.longitude = longitude,
                                !.pc = IF latitude = Null \/ longitude = Null
                                       THEN "geocode" ELSE "forecast"]
    /\ UNCHANGED <<hd, ldVars, tvVars, swVars, prVars>>

\* the geocoding call ends
WxGeocode ==
    /\ wx.pc = "geocode"
    /\ \E end \in UpstreamEnds, first \in GeoFirsts :
         CASE end \in {"threw", "unparsable"} -> wx' = WxDone(Unhandled)
           [] end = "not_ok" ->
                wx' = WxDone(JsonResponse(502, ErrorBody("Geocoding failed")))
           [] end = "json" ->
                LET latitude == IF first = <<>> THEN Null ELSE num(first[1].latitude)
                    longitude == IF first = <<>> THEN Null ELSE num(first[1].longitude)
                IN IF latitude = Null \/ longitude = Null
                   THEN wx' = WxDone(JsonResponse(404, ErrorBody("City not found")))
                   ELSE wx' = [wx EXCEPT !.latitude = latitude, !.longitude = longitude,
                                         !.geocoded = TRUE, !.pc = "forecast"]
    /\ UNCHANGED <<hd, ldVars, tvVars, swVars, prVars>>

\* the forecast call ends
WxForecast ==
    /\ wx.pc = "forecast"
    /\ \E end \in UpstreamEnds, f \in Forecasts :
         CASE end \in {"threw", "unparsable"} -> wx' = WxDone(Unhandled)
           [] end = "not_ok" ->
                wx' = WxDone(JsonResponse(502, ErrorBody("Forecast failed")))
           [] end = "json" ->
                IF ~f.timeIsArray THEN wx' = WxDone(Unhandled)
                ELSE wx' = [wx EXCEPT !.pc = "done", !.forecast = <<f>>,
                             !.response = JsonResponse(200,
                                 WeatherOut(wx.latitude, wx.longitude, f))]
    /\ UNCHANGED <<hd, ldVars, tvVars, swVars, prVars>>

InitWeather == WxInit /\ HdIdle /\ LdIdle /\ TvIdle /\ SWIdle /\ PrIdle
NextWeather == WxStart \/ WxGeocode \/ WxForecast
SpecWeather == InitWeather /\ [][NextWeather]_vars


(***************************************************************************)
(* Part V.  Hadith proxy (GET /api/hadith)                                 *)
(*                                                                         *)
(* Strings that are hashed are sequences of character codes.  A 32-bit     *)
(* integer is the pair of its 16-bit halves, so that no intermediate       *)
(* product leaves the range of the checker's integers.                     *)
(***************************************************************************)
\* candidate numbers per request and mirror URLs per candidate
Candidates == 5
Mirrors == 4

\* a ^ b on non-negative integers
RECURSIVE Xor(_, _)
Xor(a, b) ==
    IF a = 0 THEN b
    ELSE IF b = 0 THEN a
    ELSE 2 * Xor(a \div 2, b \div 2) + (((a % 2) + (b % 2)) % 2)

Half == 65536

\* Math.imul(h, 16777619): 16777619 = 2^24 + 403
Imul(h) ==
    LET p == h.lo * 403 IN
    [lo |-> p % Half,
     hi |-> (h.hi * 403 + (p \div Half) + (h.lo % 256) * 256) % Half]

\* the loop of hashToInt over the characters from position i, h so far
RECURSIVE HashFrom(_, _, _)
HashFrom(s, i, h) ==
    IF i > Len(s) THEN h
    ELSE HashFrom(s, i + 1, Imul([h EXCEPT !.lo = Xor(h.lo, s[i])]))

\* Math.abs of the signed 32-bit value of h, again as two halves
Abs32(h) ==
    IF h.hi < 32768 THEN h
    ELSE IF h.lo = 0 THEN [hi |-> Half - h.hi, lo |-> 0]
    ELSE [hi |-> Half - 1 - h.hi, lo |-> Half - h.lo]

\* hashToInt(s), starting from 2166136261 = 0x811C9DC5
hashToInt(s) ==
    IF s = <<>> THEN [hi |-> 33052, lo |-> 40389]
    ELSE Abs32(HashFrom(s, 1, [hi |-> 33052, lo |-> 40389]))

\* mutant: the candidates are not spaced apart
GuessUnspaced(base, i) ==
    LET b == ((base.hi % 9000) * 2536 + base.lo) % 9000 IN
    (b % 9000) + 1

\* ((base + i * 997) % 9000) + 1, with 65536 % 9000 = 2536
Guess(base, i) ==
    LET b == ((base.hi % 9000) * 2536 + base.lo) % 9000 IN
    ((b + i * 997) % 9000) + 1

\* character codes of the strings of the requests
EngBukhari == <<101, 110, 103, 45, 98, 117, 107, 104, 97, 114, 105>>
EngMuslim == <<101, 110, 103, 45, 109, 117, 115, 108, 105, 109>>
Colon == 58
SeedA == <<97>>
IsoDates == {<<50, 48, 50, 54, 45, 48, 49, 45, 48, 49>>, <<50, 48, 50, 54, 45, 48, 49, 45, 48, 50>>}

\* searchParams.get(name): <<>> is a parameter that is absent, <<s>> one
\* that is given with value s
EditionParams == {<<>>, <<EngMuslim>>}
SeedParams == {<<>>, <<(<<>>)>>, <<SeedA>>}

\* (searchParams.get("edition") || "eng-bukhari")
EditionOf(param) == IF param = <<>> \/ param[1] = <<>> THEN EngBukhari ELSE param[1]

\* mutant: the date of the call is appended to the seed
SeedWithDate(param, today) ==
    IF param = <<>> \/ param[1] = <<>> THEN today ELSE param[1] \o today

\* (searchParams.get("seed") || new Date().toISOString().slice(0, 10))
SeedOf(param, today) == IF param = <<>> \/ param[1] = <<>> THEN today ELSE param[1]

\* the five candidate numbers
Guesses(edition, seed) ==
    LET base == hashToInt(edition \o <<Colon>> \o seed) IN
    [i \in 1..Candidates |-> Guess(base, i - 1)]

\* an error object: its message names what failed and, for a request, which
HdError(kind, cand, url) == [kind |-> kind, cand |-> cand, url |-> url]

\* what an upstream request ends with: fetch rejects, a status that is not
\* ok, a body that is not JSON, or a payload; the payload's hadiths[0].text
\* is missing, a non-empty string or an empty array, and hadiths[0] may
\* carry a hadithnumber
Replies ==
    {[end |-> e, text |-> "missing", numbered |-> FALSE] : e \in {"fetch", "http", "json"}}
    \cup {[end |-> "payload", text |-> "missing", numbered |-> FALSE],
          [end |-> "payload", text |-> "words", numbered |-> FALSE],
          [end |-> "payload", text |-> "words", numbered |-> TRUE],
          [end |-> "payload", text |-> "emptyArray", numbered |-> FALSE]}

\* the hadithnumber of the payloads that carry one
UpstreamNumber == 7

\* String(h.text)
StringOf(text) == IF text = "emptyArray" THEN "" ELSE text

\* the call's locals after the parameters are read and the guesses computed
NewCall(editionParam, seedParam, today) ==
    LET edition == EditionOf(editionParam)
        seed == SeedOf(seedParam, today)
    IN [editionParam |-> editionParam, seedParam |-> seedParam, today |-> today,
        edition |-> edition, guesses |-> Guesses(edition, seed),
        cand |-> 1, url |-> 1, lastErr |-> <<>>, last |-> <<>>,
        requests |-> 0, pc |-> "fetch", response |-> <<>>, lastSeen |-> <<>>]

\* the end of the loop body of GET: the next candidate, or the 502
NextCandidate(call) ==
    IF call.cand < Candidates
    THEN [call EXCEPT !.cand = @ + 1, !.url = 1, !.lastErr = <<>>]
    ELSE [call EXCEPT !.pc = "done",
                      !.response = <<JsonResponse(502,
                          [error |-> "Hadith fetch failed", detail |-> call.last])>>]

\* lastErr = ... in fetchJsonWithFallback
RecordError(lastErr, err) == <<err>>

\* a request of fetchJsonWithFallback fails: the next mirror is tried, and
\* after the last one lastErr is thrown to the catch of GET
AfterFailure(call, kind) ==
    LET err == HdError(kind, call.cand, call.url)
        lastErr == RecordError(call.lastErr, err)
    IN IF call.url < Mirrors
       THEN [call EXCEPT !.url = @ + 1, !.lastErr = lastErr, !.lastSeen = <<err>>]
       ELSE NextCandidate([call EXCEPT !.lastErr = lastErr, !.last = lastErr,
                                       !.lastSeen = <<err>>])

\* a request returns a payload: fetchJsonWithFallback returns it to GET
AfterPayload(call, reply) ==
    IF reply.text = "missing"
    THEN LET err == HdError("missing_text", call.cand, call.url) IN
         NextCandidate([call EXCEPT !.last = <<err>>, !.lastSeen = <<err>>])
    ELSE [call EXCEPT !.pc = "done",
                      !.response = <<JsonResponse(200,
                          [edition |-> call.edition,
                           hadithnumber |-> IF reply.numbered THEN UpstreamNumber
                                            ELSE call.guesses[call.cand],
                           text |-> StringOf(reply.text)])>>]

\* one request of a call and the code that follows it
Requested(call, reply) ==
    LET c == [call EXCEPT !.requests = @ + 1] IN
    IF reply.end = "payload" THEN AfterPayload(c, reply) ELSE AfterFailure(c, reply.end)

\* the calls that are still running
Running == {r \in DOMAIN hd : hd[r].pc = "fetch"}

\* two requests with the same parameters arrive, possibly on different dates
HdInit ==
    \E editionParam \in EditionParams, seedParam \in SeedParams, d1 \in IsoDates,
       d2 \in IsoDates :
        hd = <<NewCall(editionParam, seedParam, d1), NewCall(editionParam, seedParam, d2)>>

\* the upstream answers the pending request of each running call with a failure
\* (both calls are given the same answers)
HdUpstreamFails ==
    /\ Running # {}
    /\ \E reply \in {x \in Replies : x.end # "payload"} :
         hd' = [r \in DOMAIN hd |-> IF r \in Running THEN Requested(hd[r], reply) ELSE hd[r]]
    /\ UNCHANGED <<wx, ldVars, tvVars, swVars, prVars>>

\* the upstream answers the pending request of each running call with a payload
HdUpstreamAnswers ==
    /\ Running # {}
    /\ \E reply \in {x \in Replies : x.end = "payload"} :
         hd' = [r \in DOMAIN hd |-> IF r \in Running THEN Requested(hd[r], reply) ELSE hd[r]]
    /\ UNCHANGED <<wx, ldVars, tvVars, swVars, prVars>>

InitHadith == HdInit /\ WxIdle /\ LdIdle /\ TvIdle /\ SWIdle /\ PrIdle
NextHadith == HdUpstreamFails \/ HdUpstreamAnswers
SpecHadith == InitHadith /\ [][NextHadith]_vars


(***************************************************************************)
(* Part VI.  Slideshow of the display variants                             *)
(*                                                                         *)
(* The slideshow is an effect that starts two interval timers and returns  *)
(* a cleanup that clears them.  When a render changes one of the effect's  *)
(* dependencies the render is committed first and the effect runs after    *)
(* it, cleanup and setup back to back, before any further update is        *)
(* rendered.  Indices are counted from 0 as in the code.                   *)
(***************************************************************************)
ShowVariants == {"dashboard", "aurora", "home"}

\* Math.max(a, b): NaN when an argument is NaN
MathMax(a, b) ==
    IF ~IsFinite(a) \/ ~IsFinite(b) THEN NaN
    ELSE Num(IF a.v >= b.v THEN a.v ELSE b.v)

\* Number(sp.get("cycle") ?? fallback)
CycleOr(param, fallback) == IF param.null THEN Num(fallback) ELSE Number(param.chars)

\* cycleSec: Math.max(8, Number(sp.get("cycle") ?? 14)) in the dashboard,
\* Math.max(6, Number(sp.get("cycle") ?? 10)) in Aurora
cycleSec(variant, param) ==
    IF variant = "aurora" THEN MathMax(Num(6), CycleOr(param, 10))
    ELSE MathMax(Num(8), CycleOr(param, 14))

\* seconds * 1000, the delay handed to setInterval
Millis(seconds) == IF IsFinite(seconds) THEN Num(seconds.v * 1000) ELSE NaN

\* the delay of the advance timer
AdvanceDelay(variant, cycle, seconds) ==
    IF variant = "home" THEN Millis(MathMax(Num(4), Num(seconds))) ELSE Millis(cycle)

\* the values of the cycle query parameter: absent, "5", "abc"
CycleParams == {NullStr, Str(<<"5">>), Str(<<"a", "b", "c">>)}

\* setSlideSeconds((s) => Math.max(4, s - 2)) and
\* setSlideSeconds((s) => Math.min(30, s + 2))
Minus(s) == IF s - 2 < 4 THEN 4 ELSE s - 2
Plus(s) == IF s + 2 > 30 THEN 30 ELSE s + 2

\* numbers of loaded announcements
AnnouncementCounts == {0, 1, 2}

\* what the slide list is built from: the day, the number of active Jumu'ah
\* slots, the number of announcements and the panels that are loaded (here
\* the next prayer is, the weather and the hadith are not)
Contents ==
    {[friday |-> f, jumuah |-> j, announcements |-> a, next |-> TRUE,
      weather |-> FALSE, hadith |-> FALSE] :
        f \in BOOLEAN, j \in {0, 1}, a \in AnnouncementCounts}

\* the state of a display whose loads have not resolved yet
NoContent ==
    [friday |-> TRUE, jumuah |-> 0, announcements |-> 0, next |-> TRUE,
     weather |-> FALSE, hadith |-> FALSE]

RECURSIVE Repeat(_, _)
Repeat(x, n) == IF n = 0 THEN <<>> ELSE <<x>> \o Repeat(x, n - 1)

When(cond, x) == IF cond THEN <<x>> ELSE <<>>

\* the slide list of a variant for a content
SlidesOf(variant, c) ==
    CASE variant = "dashboard" ->
           <<"board">> \o When(c.friday /\ c.jumuah > 0, "jumuah")
                       \o When(c.announcements > 0, "announcements")
      [] variant = "aurora" ->
           <<"welcome", "clock", "prayers">>
             \o When(c.next, "next-prayer")
             \o When(c.friday /\ c.jumuah > 0, "jumuah")
             \o Repeat("announcement", c.announcements)
             \o When(c.weather, "weather")
             \o When(c.hadith, "hadith")
             \o <<"qr">>
      [] variant = "home" -> <<"prayers", "announcements", "clock">>

\* the dependency list of the slideshow effect
Deps(variant, cycle, seconds, c) ==
    CASE variant = "dashboard" ->
           [cycle |-> cycle, n |-> c.announcements, friday |-> c.friday, m |-> c.jumuah]
      [] variant = "aurora" ->
           [cycle |-> cycle, n |-> Len(SlidesOf(variant, c)), friday |-> FALSE, m |-> 0]
      [] variant = "home" ->
           [cycle |-> Num(seconds), n |-> Len(SlidesOf(variant, c)), friday |-> FALSE, m |-> 0]

\* the dependency list of the render that ss.content gives
DepsNow(s) == Deps(s.variant, cycleSec(s.variant, s.cycleParam), s.slideSeconds, s.content)

\* a setInterval timer of effect run `run`
Timer(kind, run, delay) == [kind |-> kind, run |-> run, delay |-> delay]

\* the timers the effect starts: advance and progress in the dashboard and
\* in Aurora, advance alone in the home display
TimersOf(s, run) ==
    LET cycle == cycleSec(s.variant, s.cycleParam) IN
    {Timer("advance", run, AdvanceDelay(s.variant, cycle, s.slideSeconds))}
    \cup (IF s.variant = "home" THEN {}
          ELSE {Timer("progress", run, Num(IF s.variant = "aurora" THEN 50 ELSE 120))})

\* the first render of a mounted display; its effects have not run yet
FirstRender(variant, param) ==
    [pc |-> "mounted", variant |-> variant, cycleParam |-> param, slideSeconds |-> 10,
     content |-> NoContent,
     slide |-> IF variant = "dashboard" THEN "board" ELSE "",
     currentSlide |-> 0, progress |-> 0,
     by |-> [slide |-> 0, progress |-> 0],
     run |-> 0,
     closure |-> [slides |-> <<>>, i |-> 0, deps |-> <<>>],
     timers |-> {}, timeouts |-> {},
     dirty |-> TRUE]

SsInit == \E v \in ShowVariants, p \in CycleParams : ss = FirstRender(v, p)

\* the slideshow effect: the cleanup of the previous run clears both of its
\* timers, the setup shows the first slide, resets the progress and starts
\* the timers; the home display only restarts its timer
EffectRun(s) ==
    LET run == IF s.variant = "home" THEN 1 ELSE s.run + 1
        slides == SlidesOf(s.variant, s.content)
        restarted == [s EXCEPT !.run = run,
                             !.closure = [slides |-> slides, i |-> 0, deps |-> DepsNow(s)],
                             !.timers = TimersOf(s, run),
                             !.dirty = FALSE]
    IN IF s.variant = "home" THEN restarted
       ELSE [restarted EXCEPT !.slide = IF s.variant = "dashboard" THEN slides[1] ELSE "",
                            !.currentSlide = 0,
                            !.progress = 0,
                            !.by = [slide |-> run, progress |-> run]]

RunEffect ==
    /\ ss.pc = "mounted"
    /\ ss.dirty
    /\ ss' = EffectRun(ss)
    /\ UNCHANGED <<jm, dr, ldVars, pxVars, swVars, prVars>>

\* a render with other dependencies than those of the running effect
\* schedules the effect again
Rendered(s) == [s EXCEPT !.dirty = (DepsNow(s) # s.closure.deps)]

\* The runs of the effect are numbered, up to MaxResets re-runs, where a
\* callback can outlive its run; the home display has one timer, which its
\* cleanup clears, and its runs are not told apart.
MayReset(s) == (s.variant # "home" /\ DepsNow(s) # ss.closure.deps) => ss.run <= MaxResets

\* setAnnouncements / setJumuahTimes / setWeather / the clock: the content
\* changes and is rendered
DataChange ==
    /\ ss.pc = "mounted"
    /\ ~ss.dirty
    /\ \E c \in Contents \ {ss.content} :
         LET s == [ss EXCEPT !.content = c] IN
         /\ MayReset(s)
         /\ ss' = Rendered(s)
    /\ UNCHANGED <<jm, dr, ldVars, pxVars, swVars, prVars>>

\* the page is navigated to the same display with another cycle parameter
CycleChange ==
    /\ ss.pc = "mounted"
    /\ ~ss.dirty
    /\ ss.variant # "home"
    /\ \E p \in CycleParams \ {ss.cycleParam} :
         LET s == [ss EXCEPT !.cycleParam = p] IN
         /\ MayReset(s)
         /\ ss' = Rendered(s)
    /\ UNCHANGED <<jm, dr, ldVars, pxVars, swVars, prVars>>

\* the - and + buttons of the home display
Button ==
    /\ ss.pc = "mounted"
    /\ ~ss.dirty
    /\ ss.variant = "home"
    /\ \E seconds \in {Minus(ss.slideSeconds), Plus(ss.slideSeconds)} :
         LET s == [ss EXCEPT !.slideSeconds = seconds] IN
         /\ MayReset(s)
         /\ ss' = Rendered(s)
    /\ UNCHANGED <<jm, dr, ldVars, pxVars, swVars, prVars>>

\* mutant: the rotation stops at the last slide instead of wrapping around
DashboardAdvanceStops(s, t) ==
    LET n == Len(s.closure.slides)
        i == IF s.closure.i + 1 < n THEN s.closure.i + 1 ELSE n - 1
    IN [s EXCEPT !.closure.i = i, !.slide = s.closure.slides[i + 1], !.by.slide = t.run]

\* the advance timer of the dashboard: i = (i + 1) % slides.length;
\* setSlide(slides[i])
DashboardAdvance(s, t) ==
    LET i == (s.closure.i + 1) % Len(s.closure.slides) IN
    [s EXCEPT !.closure.i = i, !.slide = s.closure.slides[i + 1], !.by.slide = t.run]

\* the advance timer of the home display:
\* setSlideIndex((i) => (i + 1) % slides.length)
HomeAdvance(s, t) ==
    [s EXCEPT !.currentSlide = (@ + 1) % Len(s.closure.slides), !.by.slide = t.run]

\* a setTimeout(…, 300) callback of effect run `run`, which reads
\* slides.length from that run's render
Timeout(run, len) == [run |-> run, len |-> len]

\* the advance timer of Aurora: setIsTransitioning(true); setTimeout(..., 300)
AuroraAdvance(s, t) ==
    [s EXCEPT !.timeouts = @ \cup {Timeout(t.run, Len(s.closure.slides))}]

\* a timer fires 300 ms or more after the callbacks scheduled before it
\* unless its delay is not a number, which setInterval takes as 0
AfterTimeouts(s, t) == IsFinite(t.delay) => s.timeouts = {}

\* The advance timer fires.  An update made between the commit of a render
\* and the run of the effect it scheduled is rendered after the effect's
\* own updates, which replace it: only Aurora's timeout outlives that.
AdvanceFires ==
    /\ ss.pc = "mounted"
    /\ \E t \in ss.timers :
         /\ t.kind = "advance"
         /\ AfterTimeouts(ss, t)
         /\ CASE ss.variant = "dashboard" -> ~ss.dirty /\ ss' = DashboardAdvance(ss, t)
              [] ss.variant = "home" -> ~ss.dirty /\ ss' = HomeAdvance(ss, t)
              [] ss.variant = "aurora" -> ss' = AuroraAdvance(ss, t)
    /\ UNCHANGED <<jm, dr, ldVars, pxVars, swVars, prVars>>

\* setCurrentSlide((prev) => (prev + 1) % slides.length); setProgress(0):
\* the callback is not cleared by the cleanup
Transition(s, t) ==
    IF s.dirty THEN [s EXCEPT !.timeouts = @ \ {t}]
    ELSE [s EXCEPT !.timeouts = @ \ {t},
                   !.currentSlide = (@ + 1) % t.len,
                   !.progress = 0,
                   !.by = [slide |-> t.run, progress |-> t.run]]

TimeoutFires ==
    /\ ss.pc = "mounted"
    /\ \E t \in ss.timeouts : ss' = Transition(ss, t)
    /\ UNCHANGED <<jm, dr, ldVars, pxVars, swVars, prVars>>

\* the progress timer fires: setSlideProgress(prog) / setProgress(...), the
\* value being that of a part of the cycle
ProgressFires ==
    /\ ss.pc = "mounted"
    /\ ~ss.dirty
    /\ \E t \in ss.timers :
         /\ t.kind = "progress"
         /\ ss' = [ss EXCEPT !.progress = 1, !.by.progress = t.run]
    /\ UNCHANGED <<jm, dr, ldVars, pxVars, swVars, prVars>>

InitShow == SsInit /\ JmIdle /\ DrIdle /\ LdIdle /\ WxIdle /\ HdIdle /\ SWIdle /\ PrIdle

NextShow ==
    \/ RunEffect
    \/ DataChange
    \/ CycleChange
    \/ Button
    \/ AdvanceFires
    \/ TimeoutFires
    \/ ProgressFires

SpecShow == InitShow /\ [][NextShow]_vars

\* the timers keep firing, the scheduled callbacks and effects run
SpecShowFair ==
    /\ SpecShow
    /\ WF_vars(RunEffect)
    /\ WF_vars(AdvanceFires)
    /\ WF_vars(TimeoutFires)


(***************************************************************************)
(* Part VII.  The date of the displayed prayer rows                        *)
(*                                                                         *)
(* Dates are numbered 1, 2, ... in the masjid's timezone.  A load reads    *)
(* the date, queries the prayer rows of that date and commits them when    *)
(* the query resolves; the queries of this part all succeed.               *)
(***************************************************************************)
DateVariants == {"dashboard", "aurora", "legacy", "home"}

\* the variants whose load effect has todayKey among its dependencies
ReloadsOnDateChange(variant) == variant \in {"dashboard", "aurora"}

\* the variants that subscribe to change notifications of the prayer table
Subscribes(variant) == variant \in {"dashboard", "legacy", "home"}

\* a load in flight: the date whose rows it has asked for
RowsLoad(date) == [date |-> date]

\* the display is mounted and its boot load is in flight
DrInit ==
    \E v \in DateVariants :
        dr = [pc |-> "mounted", variant |-> v, today |-> 1, rows |-> 0,
              loads |-> {RowsLoad(1)}]

\* The clock passes midnight: todayKey changes and, where it is a dependency,
\* the load effect runs again and starts a load for the new date.  The loads
\* of the previous run stay in flight; the new run has set alive.current.
DateChange(d, today) ==
    IF ReloadsOnDateChange(d.variant)
    THEN [d EXCEPT !.today = today, !.loads = @ \cup {RowsLoad(today)}]
    ELSE [d EXCEPT !.today = today]

Midnight ==
    /\ dr.pc = "mounted"
    /\ dr.today <= MaxMidnights
    /\ dr' = DateChange([dr EXCEPT !.today = dr.today + 1], dr.today + 1)
    /\ UNCHANGED <<ss, jm, ldVars, pxVars, swVars, prVars>>

\* a change notification of the prayer table starts a load for the date it
\* reads
RowsNotify ==
    /\ dr.pc = "mounted"
    /\ Subscribes(dr.variant)
    /\ dr' = [dr EXCEPT !.loads = @ \cup {RowsLoad(dr.today)}]
    /\ UNCHANGED <<ss, jm, ldVars, pxVars, swVars, prVars>>

\* the prayer query of a load resolves: setPrayers(rows of the load's date)
RowsResolve ==
    /\ dr.pc = "mounted"
    /\ \E l \in dr.loads :
         dr' = [dr EXCEPT !.rows = l.date, !.loads = @ \ {l}]
    /\ UNCHANGED <<ss, jm, ldVars, pxVars, swVars, prVars>>

InitRollover == DrInit /\ SsIdle /\ JmIdle /\ LdIdle /\ WxIdle /\ HdIdle /\ SWIdle /\ PrIdle

NextRollover == Midnight \/ RowsNotify \/ RowsResolve

\* every query resolves
SpecRollover == InitRollover /\ [][NextRollover]_vars /\ WF_vars(RowsResolve)


(***************************************************************************)
(* Part VIII.  The Jumu'ah slots                                           *)
(*                                                                         *)
(* Dates are numbered 1, 2, 3 and 0 stands for a null bound.  The table is *)
(* the masjid's rows of masjid_jumuah_times in slot order.                 *)
(***************************************************************************)
JumuahVariants == {"dashboard", "aurora"}

JumuahDates == 1..3

\* the validity ranges of a row: open, ended, not begun, one day
Validities == {<<0, 0>>, <<0, 1>>, <<3, 0>>, <<2, 2>>}

JumuahRow(slot, validity) ==
    [slot |-> slot, valid_from |-> validity[1], valid_to |-> validity[2]]

JumuahTables ==
    UNION {{[i \in 1..n |-> JumuahRow(i, f[i])] : f \in [1..n -> Validities]}
           : n \in 0..MaxSlotRows}

ActiveOn(r, ymd) ==
    LET fromOk == r.valid_from = 0 \/ r.valid_from <= ymd
        toOk   == r.valid_to = 0 \/ r.valid_to >= ymd
    IN  fromOk /\ toOk

filterActiveByDate(rows, ymd) == SelectSeq(rows, LAMBDA r : ActiveOn(r, ymd))

\* .limit(10) of the dashboard's query, .limit(4) of Aurora's
QueryLimit(variant) == IF variant = "dashboard" THEN 10 ELSE 4

\* rows.slice().sort((a, b) => a.slot - b.slot)
RECURSIVE SortBySlot(_)
SortBySlot(rows) ==
    IF rows = <<>> THEN <<>>
    ELSE LET lowest == CHOOSE i \in 1..Len(rows) :
                           \A k \in 1..Len(rows) :
                               rows[i].slot < rows[k].slot
                               \/ (rows[i].slot = rows[k].slot /\ i <= k)
         IN  <<rows[lowest]>>
             \o SortBySlot(SubSeq(rows, 1, lowest - 1)
                           \o SubSeq(rows, lowest + 1, Len(rows)))

activeJumuah(jumuahTimes) == Slice(SortBySlot(jumuahTimes), 3)

\* the slots the variant renders from its state
RenderedSlots(j) ==
    IF j.variant = "dashboard" THEN activeJumuah(j.jumuahTimes)
    ELSE j.jumuahTimes

\* the display is mounted and its load is in flight
JmInit ==
    \E v \in JumuahVariants, today \in JumuahDates, table \in JumuahTables :
        jm = [pc |-> "loading", variant |-> v, today |-> today,
              table |-> table, jumuahTimes |-> <<>>]

\* the query resolves and the active rows of its answer are stored
LoadJumuah ==
    /\ jm.pc = "loading"
    /\ jm' = [jm EXCEPT
                !.pc = "loaded",
                !.jumuahTimes =
                    filterActiveByDate(Slice(jm.table, QueryLimit(jm.variant)),
                                       jm.today)]
    /\ UNCHANGED <<ss, dr, ldVars, pxVars, swVars, prVars>>

\* a change notification of the Jumu'ah table starts the dashboard's load
\* again; Aurora has no channel
JumuahNotify ==
    /\ jm.pc = "loaded"
    /\ jm.variant = "dashboard"
    /\ jm' = [jm EXCEPT !.pc = "loading"]
    /\ UNCHANGED <<ss, dr, ldVars, pxVars, swVars, prVars>>

InitJumuah == JmInit /\ SsIdle /\ DrIdle /\ LdIdle /\ WxIdle /\ HdIdle /\ SWIdle /\ PrIdle

NextJumuah == LoadJumuah \/ JumuahNotify

SpecJumuah == InitJumuah /\ [][NextJumuah]_vars


(***************************************************************************)
(* Properties of the offline cache worker                                  *)
(***************************************************************************)
\* some existing cache holds a response for the URL
HasEntry(url) == \E c \in SeqToSet(cacheKeys) : cacheData[c][url] # NoResp
\* the responses the existing caches hold for the URL
Entries(url) == {cacheData[c][url] : c \in SeqToSet(cacheKeys)} \ {NoResp}

\* slot h takes a step
Steps(h) == slots'[h] # slots[h]

\* C1 (cacheFirst): when a cached response exists at the moment the handler
\* looks the request up, the handler finishes at once with that cached
\* response and has issued no fetch; and a cached response stays cached, so
\* the same holds for every repetition of the request.
C1_CacheHitNeverFetches ==
    [][ /\ \A h \in Slots :
             (slots[h].pc = "cf_match" /\ HasEntry(slots[h].url) /\ Steps(h))
             => /\ slots'[h].pc = "done"
                /\ slots'[h].outcome = "responded"
                /\ slots'[h].result \in Entries(slots[h].url)
                /\ slots'[h].nfetch = 0
        /\ \A u \in Urls : (swState = "activated" /\ HasEntry(u)) => HasEntry(u)'
      ]_vars

\* a repeated static request was answered from the cache without any fetch
C1_Witness ==
    \E h \in Slots :
        /\ slots[h].strategy = "cacheFirst"
        /\ slots[h].pc = "done"
        /\ slots[h].hit
        /\ slots[h].nfetch = 0
        /\ slots[h].url = StaticUrl
        /\ slots[h].result = NetResp(StaticUrl, 200)
        /\ started >= 2

\* C2 (networkFirst): when the fetch has thrown, the answer is the cached
\* response of that very request when one is stored, and otherwise the
\* synthesized 503 {error: "Offline and no cache"}; the handler never rejects.
C2_NetworkFirstFallback ==
    /\ [](\A h \in Slots : slots[h].strategy = "networkFirst" => slots[h].outcome # "rejected")
    /\ [][ \A h \in Slots :
             (slots[h].pc = "nf_match" /\ Steps(h))
             => /\ slots'[h].pc = "done"
                /\ slots'[h].outcome = "responded"
                /\ HasEntry(slots[h].url)
                     => /\ slots'[h].result \in Entries(slots[h].url)
                        /\ slots'[h].result.url = slots[h].url
                /\ ~HasEntry(slots[h].url)
                     => /\ slots'[h].result = OfflineResp
                        /\ slots'[h].result.status = 503
                        /\ slots'[h].result.body = [error |-> "Offline and no cache"]
      ]_vars

\* an API request whose fetch threw was answered with its stored response
C2_Witness ==
    \E h \in Slots :
        /\ slots[h].strategy = "networkFirst"
        /\ slots[h].pc = "done"
        /\ slots[h].nfetch = 1
        /\ slots[h].hit
        /\ slots[h].result = NetResp(ApiUrl, 200)


\* C3 (networkWithShellFallback): after a failed fetch the answer is the cached
\* response of the request when there is one; else the cached root document
\* "/"; and the handler rejects only when both are absent.  After a successful
\* fetch the network response is returned and its clone is written to the
\* app-shell cache.
C3_ShellFallbackOrder ==
    [][ \A h \in Slots :
          /\ (slots[h].pc = "sf_match" /\ Steps(h))
             => IF HasEntry(slots[h].url)
                THEN /\ slots'[h].outcome = "responded"
                     /\ slots'[h].result \in Entries(slots[h].url)
                ELSE /\ slots'[h].pc = "sf_shell"
                     /\ slots'[h].outcome = "pending"
          /\ (slots[h].pc = "sf_shell" /\ Steps(h))
             => IF HasEntry(RootUrl)
                THEN /\ slots'[h].outcome = "responded"
                     /\ slots'[h].result \in Entries(RootUrl)
                ELSE /\ slots'[h].outcome = "rejected"
                     /\ slots'[h].result = NoResp
          /\ (slots[h].pc = "sf_open" /\ Steps(h))
             => /\ slots'[h].outcome = "responded"
                /\ slots'[h].result = slots[h].fresh
                /\ PutRequest(APP_SHELL_CACHE, slots[h].url, slots[h].fresh) \in pendingPuts'
                /\ APP_SHELL_CACHE \in SeqToSet(cacheKeys')
      ]_vars

\* a navigation whose fetch failed and that was not cached got the root document
C3_Witness ==
    \E h \in Slots :
        /\ slots[h].strategy = "networkWithShellFallback"
        /\ slots[h].pc = "done"
        /\ slots[h].url = ApiUrl
        /\ ~slots[h].hit
        /\ slots[h].nfetch = 1
        /\ slots[h].outcome = "responded"
        /\ slots[h].result = NetResp(RootUrl, 200)

\* the strategy the routing rules give a request, by the listed paths
ExpectedStrategy(slot) ==
    IF slot.method # "GET" \/ ~slot.sameOrigin THEN "none"
    ELSE IF slot.mode = "navigate" THEN "networkWithShellFallback"
    ELSE IF slot.url \in {StaticUrl, RootUrl, ManifestUrl, FaviconUrl} THEN "cacheFirst"
    ELSE IF slot.url = ApiUrl THEN "networkFirst"
    ELSE "none"

StrategyPcs(strategy) ==
    CASE strategy = "cacheFirst" -> {"cf_match", "cf_fetch", "cf_open", "done"}
      [] strategy = "networkFirst" -> {"nf_fetch", "nf_open", "nf_match", "done"}
      [] strategy = "networkWithShellFallback" ->
           {"sf_fetch", "sf_open", "sf_match", "sf_shell", "done"}
      [] OTHER -> {"done"}

\* C4 (fetch routing): a non-GET or cross-origin request is never answered; a
\* same-origin GET is handled by exactly the strategy of the precedence
\* navigate -> networkWithShellFallback, static or manifest path -> cacheFirst,
\* /api/ path -> networkFirst, else it is passed through.
C4_Routing ==
    \A h \in Slots :
        slots[h].pc # "idle" =>
            /\ slots[h].strategy = ExpectedStrategy(slots[h])
            /\ slots[h].pc \in StrategyPcs(slots[h].strategy)
            /\ (slots[h].strategy = "none") <=> (slots[h].outcome = "passthrough")
            /\ slots[h].outcome = "passthrough"
                 => slots[h].result = NoResp /\ slots[h].nfetch = 0

\* a navigation to an /api/ path was handled by networkWithShellFallback
C4_Witness ==
    \E h \in Slots :
        /\ slots[h].mode = "navigate"
        /\ slots[h].url = ApiUrl
        /\ slots[h].method = "GET"
        /\ slots[h].sameOrigin
        /\ slots[h].strategy = "networkWithShellFallback"
        /\ slots[h].pc = "done"
        /\ slots[h].outcome = "responded"


CurrentCaches == {APP_SHELL_CACHE, API_CACHE}

\* C5 (activate): when activate completes, every cache that is not one of the
\* two current-version caches has been deleted; no step of activate changes
\* the current-version caches or their entries; and clients.claim() is called
\* only once all the deletions have finished.
C5_ActivateDeletesOldCaches ==
    /\ [](claimed => /\ SeqToSet(cacheKeys) \subseteq CurrentCaches
                     /\ toDelete = {}
                     /\ deleted \cap CurrentCaches = {})
    /\ [](swState = "activated" => claimed)
    /\ [][ (swState = "installed" \/ swState = "activating")
             => /\ \A c \in CurrentCaches :
                     /\ cacheData'[c] = cacheData[c]
                     /\ c \in SeqToSet(cacheKeys) => c \in SeqToSet(cacheKeys')
                /\ (claimed' /\ ~claimed)
                     => SeqToSet(cacheKeys) \cap OldCacheNames = {}
      ]_vars

\* an activation that found both caches of version v0 has deleted them, kept
\* the pre-populated shell cache and claimed the clients
C5_Witness ==
    /\ swState = "activated"
    /\ claimed
    /\ deleted = OldCacheNames
    /\ cacheKeys = <<APP_SHELL_CACHE>>
    /\ cacheData[APP_SHELL_CACHE][RootUrl] = NetResp(RootUrl, 200)
    /\ started = 0

\* C6 (install): skipWaiting() is called only after every path of the manifest
\* is in the app-shell cache; when the pre-population fails, skipWaiting() is
\* never called and the install goes no further.
C6_InstallPopulatesBeforeSkipWaiting ==
    /\ (swState = "installed" /\ skipWaitingCalled)
         => /\ APP_SHELL_CACHE \in SeqToSet(cacheKeys)
            /\ \A i \in 1..Len(APP_SHELL_ASSETS) :
                 cacheData[APP_SHELL_CACHE][APP_SHELL_ASSETS[i]] # NoResp
    /\ skipWaitingCalled => swState \in {"installed", "activating", "activated"}
    /\ swState = "install_failed"
         => /\ ~skipWaitingCalled
            /\ ~claimed
            /\ ~ENABLED Next
    /\ swState \in {"parsed", "installing"} => ~skipWaitingCalled

\* skipWaiting() has just been called on a populated app-shell cache
C6_Witness ==
    /\ swState = "installed"
    /\ skipWaitingCalled
    /\ \A i \in 1..Len(APP_SHELL_ASSETS) :
         cacheData[APP_SHELL_CACHE][APP_SHELL_ASSETS[i]] =
           NetResp(APP_SHELL_ASSETS[i], 200)

\* C7 (HTTP error statuses are successful fetches), as stated: once
\* networkFirst has received a 5xx for a request after an earlier 200, a
\* following network failure of that request is answered with the 5xx (no
\* other cache holding the request).
C7_LastErrorServedOffline ==
    \A h \in Slots :
        (/\ slots[h].strategy = "networkFirst"
         /\ slots[h].pc = "done"
         /\ slots[h].hit
         /\ nfLast[slots[h].url] # NoResp
         /\ nfLast[slots[h].url].status >= 500
         /\ \A c \in CacheNames \ {API_CACHE} : cacheData[c][slots[h].url] = NoResp)
        => slots[h].result = nfLast[slots[h].url]


\* networkFirst has returned a network response for url: its cache.put has
\* been issued, and is either outstanding or completed
NetworkFirstReturned(url) ==
    \/ \E p \in pendingPuts : p.cache = API_CACHE /\ p.url = url
    \/ cacheData[API_CACHE][url] # NoResp

\* C29 (networkFirst): once networkFirst has returned a network response for a
\* request, a following identical request whose fetch fails is answered with
\* a stored response of that request and never with the synthesized 503.
C29_StoredResponseAfterReturn ==
    [][\A h \in Slots :
          (/\ slots[h].pc = "nf_match"
           /\ slots'[h].pc = "done"
           /\ NetworkFirstReturned(slots[h].url))
          => /\ slots'[h].hit
             /\ slots'[h].result # OfflineResp
             /\ slots'[h].result.url = slots[h].url]_vars


\* the install promise chain has passed cache.addAll
InstallCompleted == swState \in {"populated", "installed", "activating", "activated"}

\* C30 (install / activate / networkWithShellFallback): in every state after
\* install has completed the app-shell cache exists and holds an entry for
\* "/", and a navigation request is never answered by a rejection: when its
\* fetch has failed it gets a stored response.
C30_ShellAnswersOffline ==
    /\ InstallCompleted =>
         /\ APP_SHELL_CACHE \in SeqToSet(cacheKeys)
         /\ cacheData[APP_SHELL_CACHE][RootUrl] # NoResp
    /\ \A h \in Slots :
         slots[h].strategy = "networkWithShellFallback" =>
             /\ slots[h].outcome # "rejected"
             /\ (slots[h].pc = "done" /\ slots[h].fresh = NoResp /\ slots[h].nfetch = 1)
                  => /\ slots[h].outcome = "responded"
                     /\ slots[h].result # NoResp

\* a navigation to a page that is not stored, its fetch having failed, was
\* answered with the shell entry of "/"
C30_Witness ==
    \E h \in Slots :
        /\ slots[h].strategy = "networkWithShellFallback"
        /\ slots[h].mode = "navigate"
        /\ slots[h].url = ApiUrl
        /\ slots[h].pc = "done"
        /\ slots[h].nfetch = 1
        /\ ~slots[h].hit
        /\ slots[h].outcome = "responded"
        /\ slots[h].result = cacheData[APP_SHELL_CACHE][RootUrl]
        /\ slots[h].result.url = RootUrl


(***************************************************************************)
(* Properties of the schedule utilities                                    *)
(***************************************************************************)
\* minutes since midnight of a well-formed "HH:MM:SS" string, by position
MinuteOfDay(t) ==
    (DigitVal(t.chars[1]) * 10 + DigitVal(t.chars[2])) * 60
    + DigitVal(t.chars[4]) * 10 + DigitVal(t.chars[5])

\* the jamaat minutes of the rows of prayer PRAYER_ORDER[i] dated now.date
JamaatMinutes(rows, now, i) ==
    {MinuteOfDay(rows[j].jamaat_time) :
        j \in {k \in 1..Len(rows) : rows[k].date = now.date /\ rows[k].prayer = PRAYER_ORDER[i]}}

\* the positions in PRAYER_ORDER of the prayers still to come today
Qualifying(rows, now) ==
    {i \in 1..Len(PRAYER_ORDER) : \E m \in JamaatMinutes(rows, now, i) : m >= now.minutes}

\* the next prayer as the specification describes it: a set holding the pair
\* <<prayer, minutes>>, or the empty set for "nothing"
ExpectedNext(rows, now) ==
    IF Qualifying(rows, now) # {}
    THEN LET i == CHOOSE k \in Qualifying(rows, now) :
                    \A l \in Qualifying(rows, now) : k <= l
         IN {<<PRAYER_ORDER[i], m>> : m \in JamaatMinutes(rows, now, i)}
    ELSE {<<"fajr", m>> : m \in JamaatMinutes(rows, now, 1)}

\* a variant's result in the same form
NextAsPair(next) ==
    IF next = <<>> THEN {}
    ELSE IF IsFinite(next[1].mins) THEN {<<next[1].prayer, next[1].mins.v>>}
    ELSE {<<next[1].prayer, -1>>}

\* C8 (nextPrayer): in every display variant the next prayer is the first of
\* fajr, dhuhr, asr, maghrib, isha with a row of today whose jamaat minutes
\* are >= the current minutes; fajr with today's fajr jamaat minutes when no
\* prayer qualifies; nothing when there is no fajr row either.
C8_NextPrayerEveryVariant ==
    \A v \in Variants : NextAsPair(shown[v].next) = ExpectedNext(prayers, shown[v].at)

\* the rows of the specification's example
ExampleRows(date) ==
    << Row("fajr", date, Chars("0", "5", "0", "0"), Chars("0", "5", "2", "0")),
       Row("dhuhr", date, Chars("1", "3", "0", "0"), Chars("1", "3", "1", "5")),
       Row("asr", date, Chars("1", "6", "0", "0"), Chars("1", "6", "2", "0")),
       Row("maghrib", date, Chars("1", "9", "0", "0"), Chars("1", "9", "0", "5")),
       Row("isha", date, Chars("2", "0", "3", "0"), Chars("2", "0", "4", "5")) >>

\* variant v computed its next prayer from the example rows of today at `minutes`
ExampleAt(v, minutes) ==
    /\ prayers = ExampleRows(shown[v].at.date)
    /\ shown[v].at.minutes = minutes

\* C9 as stated: at 14:00 the example rows give asr at minute 960.
C9_AsrAtStartMinute ==
    \A v \in Variants : ExampleAt(v, 840) => NextAsPair(shown[v].next) = {<<"asr", 960>>}

\* C9 as amended: at 14:00 the example rows give asr at its jamaat minute 980
\* (16:20), in every variant.
C9_AsrAtJamaatMinute ==
    \A v \in Variants : ExampleAt(v, 840) => NextAsPair(shown[v].next) = {<<"asr", 980>>}

C9_Witness ==
    /\ ExampleAt("dashboard", 840)
    /\ shown["dashboard"].next = NextOf("asr", Num(980))
    /\ clock.minutes = 840

\* the example rows were rendered at `minutes`, the clock still showing it
ExampleNow(v, minutes) ==
    /\ ExampleAt(v, minutes)
    /\ clock = shown[v].at

CountdownText(d) ==
    IF d < 60 THEN ToString(d) \o " min"
    ELSE ToString(d \div 60) \o "h " \o ToString(d % 60) \o "m"

\* next.minutes - now, plus 1440 when that difference is negative
CountedValue(mins, now) ==
    IF mins - now < 0 THEN mins - now + MinutesPerDay ELSE mins - now

\* C11 (countdown): in every variant that shows a countdown for a next prayer,
\* the text is that of next.minutes - now (plus 1440 when negative), written
\* "{m} min" under 60 and "{h}h {m}m" otherwise, also when m is 0.
C11_CountdownValueAndFormat ==
    \A v \in Variants :
        (shown[v].next # <<>> /\ IsFinite(shown[v].next[1].mins)) =>
            /\ CountedValue(shown[v].next[1].mins.v, clock.minutes) \in 0..(MinutesPerDay - 1)
            /\ shown[v].countdown
                 = CountdownText(CountedValue(shown[v].next[1].mins.v, clock.minutes))

\* "HH:MM" followed by anything: two digits, a colon, two digits
WellFormed(t) ==
    /\ ~t.null
    /\ Len(t.chars) >= 5
    /\ t.chars[3] = ":"
    /\ \A i \in {1, 2, 4, 5} : t.chars[i] \in Digits

\* C12 (nextPrayer): in every variant the result is absent when no row of
\* today is loaded, its minutes are always a number, and it never names a row
\* whose jamaat time string is malformed.
C12_NextPrayerSkipsMalformed ==
    \A v \in Variants :
        LET n == shown[v].next
            today == TodayRows(prayers, shown[v].at.date)
        IN /\ today = <<>> => n = <<>>
           /\ n # <<>> =>
                /\ IsFinite(n[1].mins)
                /\ WellFormed(Find(today, n[1].prayer)[1].jamaat_time)


\* between the two clock values the jamaat minute of the prayer shown as next
\* by variant v has passed, the rows and the date being the same
JamaatPassed(v) ==
    /\ prayers' = prayers
    /\ clock'.date = clock.date
    /\ shown[v].next # <<>>
    /\ IsFinite(shown[v].next[1].mins)
    /\ clock.minutes <= shown[v].next[1].mins.v
    /\ shown[v].next[1].mins.v < clock'.minutes

\* C28 (next / countdown): with the rows unchanged, the clock tick that passes
\* the jamaat time of the prayer shown as next makes every variant show the
\* following prayer of the scan (or the fallback) as next, which is what the
\* variant's next-prayer function returns for the new clock value.
C28_NextFollowsClock ==
    [][\A v \in Variants :
          JamaatPassed(v) => shown'[v].next = NextPrayer(v, prayers, clock')]_vars


(***************************************************************************)
(* Properties of the loading of display state                              *)
(***************************************************************************)
\* the load whose result a step commits to field f was started by the
\* current setup of the load effect
CommitIsCurrent(f) ==
    (view'[f] # view[f] /\ view'[f].by # 0) => loads[view'[f].by].run = effectRuns'

\* C13 (cancellation): once the load effect has been torn down, no result of
\* a load started before the teardown is committed to any field of display
\* state, whether it resolves before or after the replacement effect started.
C13_NoCommitAfterTeardown == [][\A f \in Fields : CommitIsCurrent(f)]_vars

\* C14 (last write wins): while the display is mounted, each of prayers,
\* announcements and Jumu'ah slots shows the result of the response that
\* resolved last for it, whichever load was started first.
C14_LastWriteWins ==
    mounted => \A d \in DataSets : view[d].by = lastResolved[d]

\* the boot load and a notification's load of the dashboard were in flight at
\* once, the notification's prayers resolved first, the boot load's last
C14_Witness ==
    /\ ui = "dashboard"
    /\ mounted
    /\ loads[1].kind = "boot" /\ loads[1].outcome = "finished"
    /\ loads[2].kind = "realtime" /\ loads[2].outcome = "finished"
    /\ lastResolved["prayers"] = 1
    /\ view["prayers"].by = 1
    /\ view["jumuah"].by = 2

\* the full-screen error state replaces the display
ErrorScreen == view["error"] # NotLoaded

\* C15 (transient failures): once a load has succeeded the display never
\* shows the full-screen error state, and a data set that shows loaded data
\* is never replaced by the empty result of a failed query.
C15_TransientFailureKeepsData ==
    /\ [](mounted /\ view["masjid"] # NotLoaded => ~ErrorScreen)
    /\ [][\A d \in DataSets : view[d].ok => view'[d].ok]_vars


(***************************************************************************)
(* Properties of the weather proxy                                         *)
(***************************************************************************)
\* no city is given and lat or lon is missing
MissingPlace == wx.city = "" /\ (Falsy(wx.latQ) \/ Falsy(wx.lonQ))

\* C16 (weather proxy statuses): every request ends with 400 (exactly when
\* no city is given and lat or lon is missing), 502, 404 (only after a
\* geocoding lookup) or 200, whatever the upstream calls do.
C16_WeatherStatuses ==
    wx.pc = "done" =>
        /\ wx.response.status \in {400, 502, 404, 200}
        /\ wx.response.status = 400 <=> MissingPlace
        /\ wx.response.status = 404 => (Falsy(wx.latQ) \/ Falsy(wx.lonQ))

\* a finite number or null
FiniteOrNull(x) == x.kind \in {"number", "null"}

\* C17 (weather proxy numbers): in a 200 response the location's latitude
\* and longitude, the current temperature and weathercode and each day's
\* tmax, tmin, precipProbMax and weathercode are a finite number or null.
C17_NumericFieldsFiniteOrNull ==
    (wx.pc = "done" /\ wx.response.status = 200) =>
        LET body == wx.response.body IN
        /\ FiniteOrNull(body.location.latitude)
        /\ FiniteOrNull(body.location.longitude)
        /\ FiniteOrNull(body.current.temperature)
        /\ FiniteOrNull(body.current.weathercode)
        /\ \A i \in 1..Len(body.daily) :
             /\ FiniteOrNull(body.daily[i].tmax)
             /\ FiniteOrNull(body.daily[i].tmin)
             /\ FiniteOrNull(body.daily[i].precipProbMax)
             /\ FiniteOrNull(body.daily[i].weathercode)

\* a 200 response to lat=abc whose forecast has a string as temperature and
\* a number beyond the doubles as the day's tmax: all three are sent as null
C17_Witness ==
    /\ wx.pc = "done"
    /\ wx.response.status = 200
    /\ wx.latitude = NaN
    /\ wx.response.body.location.latitude = Null
    /\ wx.forecast[1].temperature = Text
    /\ wx.response.body.current.temperature = Null
    /\ Len(wx.forecast[1].daily) = 1
    /\ wx.forecast[1].daily[1].tmax = Infinity
    /\ wx.response.body.daily[1].tmax = Null


(***************************************************************************)
(* Properties of the hadith proxy                                          *)
(***************************************************************************)
\* the two calls ask for the same candidates, stand at the same request and
\* have answered alike
SameOutcome ==
    /\ hd[1].guesses = hd[2].guesses
    /\ hd[1].cand = hd[2].cand /\ hd[1].url = hd[2].url
    /\ hd[1].pc = hd[2].pc
    /\ hd[1].response = hd[2].response

\* C18 as stated: two calls with the same (edition, seed), given the same
\* upstream responses, request the same candidates in the same order and
\* return the same response, for every seed that is given.
C18_SameSeedSameOutcome ==
    (hd # <<>> /\ hd[1].seedParam # <<>>) => SameOutcome

\* C18 as amended: the same holds for every seed that is given and is not
\* empty; an empty seed is replaced by the date of the call.
C18_SameNonEmptySeedSameOutcome ==
    (hd # <<>> /\ hd[1].seedParam # <<>> /\ hd[1].seedParam # <<(<<>>)>>) => SameOutcome

\* two calls with seed "a" on different dates, both answered 200 by the
\* second candidate
C18_Witness ==
    /\ hd # <<>>
    /\ hd[1].seedParam = <<SeedA>>
    /\ hd[1].today # hd[2].today
    /\ hd[1].pc = "done" /\ hd[2].pc = "done"
    /\ hd[1].cand = 2
    /\ hd[1].response[1].status = 200
    /\ hd[1].response[1].body.hadithnumber = hd[2].guesses[2]

\* call r leaves its candidate in this step: for the next one, or for the 502
Abandons(r) ==
    \/ hd'[r].cand > hd[r].cand
    \/ hd[r].pc = "fetch" /\ hd'[r].pc = "done" /\ hd'[r].response[1].status = 502

\* C19 (mirrors): the mirror URLs of a candidate are tried in order, and a
\* candidate is abandoned only by the failure of its fourth URL.
C19_AllMirrorsBeforeNextCandidate ==
    [][hd # <<>> =>
         \A r \in DOMAIN hd :
            /\ hd'[r].cand = hd[r].cand => hd'[r].url \in {hd[r].url, hd[r].url + 1}
            /\ Abandons(r) => hd[r].url = Mirrors]_vars

\* C20 (termination): a call makes at most 5 x 4 = 20 upstream requests and
\* ends with a 200 whose text is not empty, or, all candidates exhausted,
\* with a 502 whose detail is the last error encountered.
C20_EndsWith200Or502 ==
    hd # <<>> =>
        \A r \in DOMAIN hd :
            /\ hd[r].requests <= Candidates * Mirrors
            /\ hd[r].pc = "fetch" => hd[r].requests < Candidates * Mirrors
            /\ hd[r].pc = "done" =>
                 LET response == hd[r].response[1] IN
                 \/ response.status = 200 /\ response.body.text # ""
                 \/ /\ response.status = 502
                    /\ hd[r].cand = Candidates
                    /\ response.body.detail = hd[r].lastSeen


\* hash values at the ends of the range of hashToInt
ExtremeHashes ==
    {[hi |-> 0, lo |-> 0], [hi |-> 0, lo |-> 8999], [hi |-> 32767, lo |-> Half - 1],
     [hi |-> 32768, lo |-> 0], [hi |-> 33052, lo |-> 40389], [hi |-> Half - 1, lo |-> Half - 1]}

\* five numbers of 1..9000, no two of them equal
DistinctCandidates(g) ==
    /\ DOMAIN g = 1..Candidates
    /\ \A i \in DOMAIN g : g[i] \in 1..9000
    /\ \A i, j \in DOMAIN g : i # j => g[i] # g[j]

\* C25 (hashToInt / guesses): the five candidate numbers of every call lie in
\* 1..9000 and are pairwise distinct; so are those derived from the extreme
\* values of the hash.
C25_CandidatesDistinctInRange ==
    /\ \A r \in DOMAIN hd : DistinctCandidates(hd[r].guesses)
    /\ \A h \in ExtremeHashes :
         DistinctCandidates([i \in 1..Candidates |-> Guess(h, i - 1)])

\* a call with seed "a" has gone through its five candidates, the numbers
\* hashed from "eng-bukhari:a"
C25_Witness ==
    /\ hd # <<>>
    /\ hd[1].editionParam = <<>>
    /\ hd[1].seedParam = <<SeedA>>
    /\ hd[1].cand = Candidates
    /\ hd[1].guesses = <<8296, 293, 1290, 2287, 3284>>


(***************************************************************************)
(* Properties of the slideshow                                             *)
(***************************************************************************)
\* the minimum rotation duration of a variant, in seconds
MinimumSeconds(variant) ==
    CASE variant = "dashboard" -> 8 [] variant = "aurora" -> 6 [] variant = "home" -> 4

\* C22 (cycleSec / slideshow loop): the delay of every running advance timer
\* is a number of at least the variant's minimum (8 s dashboard, 6 s Aurora,
\* 4 s home display), whatever the cycle parameter is, and the rotation
\* seconds of the home display stay within 4..30 under the - and + buttons.
C22_RotationClampedToMinimum ==
    ss.pc = "mounted" =>
        /\ \A t \in ss.timers :
             t.kind = "advance" => JsGeq(t.delay, MinimumSeconds(ss.variant) * 1000)
        /\ ss.slideSeconds \in 4..30


\* the variants whose slideshow has a progress timer
Timed == ss.pc = "mounted" /\ ss.variant \in {"dashboard", "aurora"}

\* the two timers exist together and belong to the last run of the effect
TimersTogether ==
    \A t \in ss.timers :
        /\ t.run = ss.run
        /\ \A kind \in {"advance", "progress"} : \E u \in ss.timers : u.kind = kind /\ u.run = t.run

\* the slide and the progress were last written by the running rotation
WrittenByRotation == ss.by.slide = ss.run /\ ss.by.progress = ss.run

\* the step is a run of the effect, which shows the first slide with progress 0
ResetsRotation ==
    ss'.run # ss.run =>
        /\ ss'.timers # {}
        /\ ss'.progress = 0
        /\ ss'.currentSlide = 0
        /\ ss'.variant = "dashboard" => ss'.slide = SlidesOf("dashboard", ss'.content)[1]

\* C23 (slideshow effect): the advance timer and the progress timer are
\* started together and cancelled together; a change of the cycle duration
\* or of the slide-list length restarts both with the first slide shown and
\* progress 0; after that no callback of the previous rotation changes the
\* slide or the progress.
C23_TimersResetTogether ==
    /\ [](Timed /\ ss.run > 0 => TimersTogether /\ WrittenByRotation)
    /\ [][Timed => ResetsRotation]_vars


\* the slide list of the committed render
CurrentSlides == SlidesOf(ss.variant, ss.content)

\* C26 (slides / renderSlide): in every state of the slideshow the current
\* slide is one of the current slide list: the index is below slides.length
\* in Aurora and in the home display, the slide key is one of the eligible
\* slides in the dashboard.
C26_CurrentSlideInList ==
    ss.pc = "mounted" =>
        IF ss.variant = "dashboard" THEN ss.slide \in SeqToSet(CurrentSlides)
        ELSE ss.currentSlide \in 0..(Len(CurrentSlides) - 1)


\* the position in the slide list of the slide that is shown
Position == IF ss.variant = "dashboard" THEN ss.closure.i ELSE ss.currentSlide

\* announcementIndex: the number of the announcement an Aurora slide shows,
\* slides.slice(0, currentSlide + 1).filter((s) => s === "announcement").length - 1
announcementIndex(slides, currentSlide) ==
    Cardinality({j \in 1..(currentSlide + 1) : slides[j] = "announcement"}) - 1

\* what is on the screen: the slide's key and, for an announcement slide of
\* Aurora, the number of the announcement
Displayed ==
    IF ss.variant = "dashboard" THEN [key |-> ss.slide, item |-> 0]
    ELSE IF Position >= Len(CurrentSlides) THEN [key |-> "", item |-> 0]
    ELSE [key |-> CurrentSlides[Position + 1],
          item |-> IF ss.variant = "aurora" /\ CurrentSlides[Position + 1] = "announcement"
                   THEN announcementIndex(CurrentSlides, Position) ELSE 0]

\* a callback of the running rotation moves the display to the following
\* slide of the list, the first one after the last; a new rotation starts at
\* the first slide
InListOrder ==
    /\ (ss'.run = ss.run /\ ss'.by.slide = ss.run /\ Position' # Position)
         => /\ Position' = (Position + 1) % Len(CurrentSlides)
            /\ Displayed'.key = CurrentSlides[Position' + 1]
    /\ (ss'.run # ss.run /\ ss.variant # "home") => Position' = 0

\* the length of the longest slide list
LongestList == Len(SlidesOf("aurora", [NoContent EXCEPT !.jumuah = 1, !.announcements = 2]))

C21_RowsFollowTheDate ==
    <>[](dr.pc = "mounted" => dr.rows = dr.today)


(***************************************************************************)
(* Properties of the Jumu'ah slots                                         *)
(***************************************************************************)
\* C24 (filterActiveByDate / activeJumuah / loadData): in every variant the
\* rendered Jumu'ah slots are rows whose validity range contains today's
\* date, a null bound being open, and at most 3 slots are rendered whatever
\* number of active rows the query returns.
C24_ActiveSlotsAtMostThree ==
    jm.pc = "loaded" =>
        /\ \A i \in 1..Len(RenderedSlots(jm)) :
               ActiveOn(RenderedSlots(jm)[i], jm.today)
        /\ Len(RenderedSlots(jm)) <= 3

=============================================================================
